---------------------------- MODULE Spec2Model ----------------------------
(***************************************************************************)
(* ReviewRadar: product detection (extraction cascade, title normalizer)   *)
(* and rating aggregation.                                                 *)
(*                                                                         *)
(* Strings are sequences of one-character strings.  null, undefined and '' *)
(* are all falsy in every test the code makes on a title, so all three are *)
(* the empty sequence here.                                                *)
(*                                                                         *)
(* Three specifications share the variables:                               *)
(*   SpecNorm  the title post-processing applied once and twice            *)
(*   Spec      one run of product detection over one page                  *)
(*   SpecAgg   one rating aggregation over one list of observations        *)
(***************************************************************************)
EXTENDS Integers, Sequences, FiniteSets, TLC

VARIABLES
    \* ---- title post-processing (SpecNorm)
    normIn,         \* the raw title handed to the post-processing
    normOut1,       \* the title after one pass
    normOut2,       \* the title after a second pass over normOut1
    normStep,       \* number of passes done: 0, 1, 2
    \* ---- one run of product detection over one page (Spec)
    impl,               \* which implementation runs
    page,               \* the page (for the server also the URL) it runs on
    pc,                 \* the statement the run is at
    title,              \* the local title / productTitle; EmptyStr is null or ''
    detectionMethod,    \* the local detectionMethod of detectProduct
    detectionSelector,  \* the local detectionSelector: 0 is '', i the i-th
                        \* selector of the list, NumSelectors + 1 is 'h1'
    trace,              \* history: the strategies consulted so far, in order,
                        \* each with what it returned
    result,             \* the value returned
    \* ---- one rating aggregation over one list of observations (SpecAgg)
    aggImpl,            \* which service aggregates
    ratings,            \* the observations obtained, in the order obtained
    platformRatings,    \* what fetchPlatformRatings returned
    aggregatedScore,    \* the aggregated score of ratings
    ratingsPlus,        \* ratings with one more observation put in
    aggregatedScorePlus,\* the aggregated score of ratingsPlus
    aggPc,              \* the statement the aggregation is at
    \* ---- one call of processInBatches (SpecBatch)
    tasks,              \* the task list: what each task settles with
    batchSize,          \* the batchSize argument
    batchIndex,         \* the loop variable i
    taskState,          \* per task: pending, running, fulfilled, rejected
    calls,              \* per task: how many times it was invoked
    settleOrder,        \* history: the tasks in the order they settled
    results,            \* the local results array
    chunksRun,          \* history: how many slices were started
    batchPc,            \* the statement the call is at
    \* ---- the probing of fetchPlatformRatings (SpecProbe)
    sourcePlatform,     \* getPlatformFromUrl(productUrl)
    sourcePage,         \* what the request for the source page comes to
    openai,             \* what openaiService.fetchPlatformRatings comes to
    probeOutcome,       \* per platform: what its probe comes to
    probePc,            \* the statement fetchPlatformRatings is at
    \* ---- one identification of the platform of a URL (SpecPlatform)
    platformImpl,       \* which function identifies
    platformUrl,        \* the URL (for the content script, the location)
    platformResult,     \* what the call came to; NoResult before it
    \* ---- one extraction of a title from the document title (SpecTitle)
    titleImpl,          \* which function extracts
    docTitle,           \* document.title, or the text of the title element
    cleanTitle,         \* the local cleanTitle (title in detectProductTitle)
    titleLog,           \* history: each step done, with cleanTitle before
                        \* and after it
    titleReturned,      \* what the function returned; EmptyStr is null
    titlePc             \* the statement the function is at

normVars == <<normIn, normOut1, normOut2, normStep>>

detectVars ==
    <<impl, page, pc, title, detectionMethod, detectionSelector, trace, result>>

aggVars ==
    <<aggImpl, ratings, platformRatings, aggregatedScore, ratingsPlus,
      aggregatedScorePlus, aggPc>>

batchVars ==
    <<tasks, batchSize, batchIndex, taskState, calls, settleOrder, results,
      chunksRun, batchPc>>

probeVars == <<sourcePlatform, sourcePage, openai, probeOutcome, probePc>>

platformVars == <<platformImpl, platformUrl, platformResult>>

titleVars ==
    <<titleImpl, docTitle, cleanTitle, titleLog, titleReturned, titlePc>>

vars ==
    <<normVars, detectVars, aggVars, batchVars, probeVars, platformVars,
      titleVars>>

-----------------------------------------------------------------------------
(* Bounds of the model *)

\* tokens concatenated into one raw title of SpecNorm
MaxTokens == 3

\* tasks handed to one call of processInBatches
MaxTasks == 7

\* the batchSize argument of processInBatches
MaxBatchSize == 3

\* labels of one hostname of SpecPlatform
MaxLabels == 3

\* words and separators put together into one document title of SpecTitle
MaxTitleTokens == 5

\* retailer names at one end of one document title of SpecTitle
MaxNames == 2

\* ld+json blocks of a page
MaxBlocks == 2

\* title meta tags of a page that are present (the first ones of the list)
MaxMetaPresent == 2

\* title selectors of a page that match an element (the first ones of the list)
MaxSelPresent == 2

\* h1 elements of a page
MaxH1 == 2

\* observations of a list drawn freely from the pool
MaxObs == 2

\* further observations of a list, each for a platform of its own
MaxBulk == 4

-----------------------------------------------------------------------------
(* Characters and strings *)

EmptyStr == <<>>

Digits == {"0", "1", "2", "3", "4", "5", "6", "7", "8", "9"}

Letters ==
    {"a", "b", "c", "d", "e", "f", "g", "h", "i", "j", "k", "l", "m",
     "n", "o", "p", "q", "r", "s", "t", "u", "v", "w", "x", "y", "z",
     "A", "B", "C", "D", "E", "F", "G", "H", "I", "J", "K", "L", "M",
     "N", "O", "P", "Q", "R", "S", "T", "U", "V", "W", "X", "Y", "Z"}

\* \s of a JavaScript regular expression, and the characters trim() removes
IsSpace(c) == c \in {" ", "\t"}

\* \d
IsDigit(c) == c \in Digits

\* \w
IsWordChar(c) == c \in Letters \cup Digits \cup {"_"}

\* n copies of the character c
Rep(c, n) == [i \in 1..n |-> c]

\* the concatenation of a sequence of strings
RECURSIVE Concat(_)
Concat(ss) == IF ss = <<>> THEN <<>> ELSE Head(ss) \o Concat(Tail(ss))

\* the characters of a sequence of [c, keep] records that are kept
KeepFlag(x) == x.keep

Kept(flagged) ==
    LET ks == SelectSeq(flagged, KeepFlag) IN [i \in 1..Len(ks) |-> ks[i].c]

\* first index >= i of s that holds no whitespace (Len(s)+1 when none)
SkipSpaces(s, i) ==
    CHOOSE j \in i..(Len(s) + 1) :
        /\ j = Len(s) + 1 \/ ~IsSpace(s[j])
        /\ \A k \in i..(j - 1) : IsSpace(s[k])

\* first index >= i of s that holds no digit
SkipDigits(s, i) ==
    CHOOSE j \in i..(Len(s) + 1) :
        /\ j = Len(s) + 1 \/ ~IsDigit(s[j])
        /\ \A k \in i..(j - 1) : IsDigit(s[k])

\* first index >= i of s that holds no word character
SkipWord(s, i) ==
    CHOOSE j \in i..(Len(s) + 1) :
        /\ j = Len(s) + 1 \/ ~IsWordChar(s[j])
        /\ \A k \in i..(j - 1) : IsWordChar(s[k])

\* index of the first character of the whitespace run that ends just before i
\* (i itself when s[i-1] is no whitespace)
RunStart(s, i) ==
    CHOOSE j \in 1..i :
        /\ j = 1 \/ ~IsSpace(s[j - 1])
        /\ \A k \in j..(i - 1) : IsSpace(s[k])

\* String.prototype.trim
Trim(s) ==
    Kept([i \in 1..Len(s) |->
            [c    |-> s[i],
             keep |-> /\ \E j \in 1..i : ~IsSpace(s[j])
                      /\ \E j \in i..Len(s) : ~IsSpace(s[j])]])

\* does the string p occur in s at index i
OccursAt(s, p, i) ==
    /\ i >= 1
    /\ i + Len(p) - 1 <= Len(s)
    /\ \A k \in 1..Len(p) : s[i + k - 1] = p[k]

\* String.prototype.includes
Includes(s, p) == \E i \in 1..(Len(s) + 1) : OccursAt(s, p, i)

-----------------------------------------------------------------------------
(* Title post-processing: "Clean up and post-process the title" *)

MaxTitleLen == 150

Ellipsis == <<".", ".", ".">>

\* title.replace(/\s+/g, ' '): each whitespace run becomes one space
CollapseWhitespace(s) ==
    Kept([i \in 1..Len(s) |->
            [c    |-> IF IsSpace(s[i]) THEN " " ELSE s[i],
             keep |-> ~(IsSpace(s[i]) /\ i > 1 /\ IsSpace(s[i - 1]))]])

\* does a match of \$\d+(\.\d+)? start at j
PriceCoreAt(s, j) == j + 1 <= Len(s) /\ s[j] = "$" /\ IsDigit(s[j + 1])

\* index after the match of \$\d+(\.\d+)? that starts at j
PriceCoreEnd(s, j) ==
    LET k == SkipDigits(s, j + 1) IN
    IF k + 1 <= Len(s) /\ s[k] = "." /\ IsDigit(s[k + 1])
    THEN SkipDigits(s, k + 1)
    ELSE k

\* is index p inside a match of \$\d+(\.\d+)?
InPriceCore(s, p) ==
    /\ s[p] = "$" \/ s[p] = "." \/ IsDigit(s[p])
    /\ \E j \in 1..p : PriceCoreAt(s, j) /\ p < PriceCoreEnd(s, j)

\* title.replace(/\s*\$\d+(\.\d+)?\s*/g, ' '): every match, left to right.
\* A match is a price with the whitespace runs around it; the run between
\* two prices belongs to the first.  Each match leaves one space.
StripPrices(s) ==
    Kept([p \in 1..Len(s) |->
            IF PriceCoreAt(s, p) THEN [c |-> " ", keep |-> TRUE]
            ELSE [c    |-> s[p],
                  keep |-> IF IsSpace(s[p])
                           THEN /\ ~PriceCoreAt(s, SkipSpaces(s, p))
                                /\ LET b == RunStart(s, p) IN
                                   ~(b > 1 /\ InPriceCore(s, b - 1))
                           ELSE ~InPriceCore(s, p)]])

\* index after a match of \(\d+% Off\) (flag i) that starts at j, 0 when none
DiscountBodyEnd(s, j) ==
    IF j + 1 <= Len(s) /\ s[j] = "(" /\ IsDigit(s[j + 1])
    THEN LET k == SkipDigits(s, j + 1) IN
         IF /\ k + 5 <= Len(s)
            /\ s[k] = "%"
            /\ s[k + 1] = " "
            /\ s[k + 2] \in {"O", "o"}
            /\ s[k + 3] \in {"F", "f"}
            /\ s[k + 4] \in {"F", "f"}
            /\ s[k + 5] = ")"
         THEN k + 6
         ELSE 0
    ELSE 0

\* index after a match of /\s*\(\d+% Off\)\s*/i that starts at i, 0 when none
DiscountEnd(s, i) ==
    LET e == DiscountBodyEnd(s, SkipSpaces(s, i)) IN
    IF e = 0 THEN 0 ELSE SkipSpaces(s, e)

\* title.replace(/\s*\(\d+% Off\)\s*/i, ' '): the first match only (no g flag)
StripDiscount(s) ==
    LET starts == {i \in 1..Len(s) : DiscountEnd(s, i) # 0} IN
    IF starts = {} THEN s
    ELSE LET i == CHOOSE m \in starts : \A n \in starts : m <= n IN
         SubSeq(s, 1, i - 1) \o <<" ">> \o SubSeq(s, DiscountEnd(s, i), Len(s))

\* does /\s+#\w+$/ match s from index i to the end
HashSkuAt(s, i) ==
    /\ IsSpace(s[i])
    /\ LET j == SkipSpaces(s, i) IN
       /\ j <= Len(s)
       /\ s[j] = "#"
       /\ SkipWord(s, j + 1) > j + 1
       /\ SkipWord(s, j + 1) = Len(s) + 1

\* title.replace(/\s+#\w+$/i, '')
StripHashSku(s) ==
    LET starts == {i \in 1..Len(s) : HashSkuAt(s, i)} IN
    IF starts = {} THEN s
    ELSE SubSeq(s, 1, (CHOOSE m \in starts : \A n \in starts : m <= n) - 1)

\* does /\s+\(\w+\)$/ match s from index i to the end
ParenSkuAt(s, i) ==
    /\ IsSpace(s[i])
    /\ LET j == SkipSpaces(s, i) IN
       /\ j <= Len(s)
       /\ s[j] = "("
       /\ LET k == SkipWord(s, j + 1) IN
          /\ k > j + 1
          /\ k = Len(s)
          /\ s[k] = ")"

\* title.replace(/\s+\(\w+\)$/i, '')
StripParenSku(s) ==
    LET starts == {i \in 1..Len(s) : ParenSkuAt(s, i)} IN
    IF starts = {} THEN s
    ELSE SubSeq(s, 1, (CHOOSE m \in starts : \A n \in starts : m <= n) - 1)

\* the five cleaning replacements, each followed by trim()
CleanTitle(t) ==
    LET a == Trim(CollapseWhitespace(t))
        b == Trim(StripPrices(a))
        c == Trim(StripDiscount(b))
        d == Trim(StripHashSku(c))
    IN  Trim(StripParenSku(d))

\* a variant in which the marker is added and nothing is cut
TruncateTitleNoCut(s) == IF Len(s) > MaxTitleLen THEN s \o Ellipsis ELSE s

\* if (title.length > 150) title = title.substring(0, 150) + '...'
TruncateTitle(s) ==
    IF Len(s) > MaxTitleLen THEN SubSeq(s, 1, MaxTitleLen) \o Ellipsis ELSE s

\* the whole "if (title) { ... }" block
NormalizeTitle(t) == IF t = EmptyStr THEN t ELSE TruncateTitle(CleanTitle(t))

-----------------------------------------------------------------------------
(* Extraction strategies.  impl names the implementation:                  *)
(*   "content_script"  the extension's content script                      *)
(*   "test_script"     the detection test script                           *)
(*   "server"          ProductService.extractProductFromUrl                *)

ContentScript == "content_script"
TestScript    == "test_script"
Server        == "server"

Impls == {ContentScript, TestScript, Server}

\* the least element of a non-empty set of integers
Least(S) == CHOOSE m \in S : \A n \in S : m <= n

(* ---- structured data *)

\* the Product entry of data['@graph'] that the loop over it returns, if any
GraphCandidate(graph) ==
    LET hits == {i \in 1..Len(graph) :
                    graph[i].type = "Product" /\ graph[i].name # EmptyStr} IN
    IF hits = {} THEN EmptyStr ELSE graph[Least(hits)].name

\* the title one ld+json block yields, EmptyStr when the loop goes on to the
\* next block.  A block that does not parse throws inside the try and is
\* skipped.  The content script knows Product and @graph only.  In the test
\* script the product-like rule reads item.image[0] with item out of scope
\* when data.image is an array: a ReferenceError, caught, block skipped.
BlockCandidate(im, b) ==
    IF ~b.valid THEN EmptyStr
    ELSE IF b.type = "Product" /\ b.name # EmptyStr THEN b.name
    ELSE IF /\ im # ContentScript
            /\ b.type = "BreadcrumbList"
            /\ b.crumbs # <<>>
            /\ b.crumbs[Len(b.crumbs)] # EmptyStr
         THEN b.crumbs[Len(b.crumbs)]
    ELSE IF GraphCandidate(b.graph) # EmptyStr THEN GraphCandidate(b.graph)
    ELSE IF im # ContentScript /\ b.name # EmptyStr /\ b.offer
         THEN IF im = TestScript /\ b.imageArray THEN EmptyStr ELSE b.name
    ELSE EmptyStr

\* a variant in which the first block that does not parse ends the loop
ExtractStructuredDataUntilError(im, blocks) ==
    LET bad == {i \in 1..Len(blocks) : ~blocks[i].valid}
        hits == {i \in 1..Len(blocks) :
                    /\ BlockCandidate(im, blocks[i]) # EmptyStr
                    /\ \A j \in bad : i < j} IN
    IF hits = {} THEN EmptyStr
    ELSE BlockCandidate(im, blocks[Least(hits)])

\* extractStructuredData / Method 1: the first block, in document order,
\* that yields a title
ExtractStructuredData(im, blocks) ==
    LET hits == {i \in 1..Len(blocks) :
                    BlockCandidate(im, blocks[i]) # EmptyStr} IN
    IF hits = {} THEN EmptyStr
    ELSE BlockCandidate(im, blocks[Least(hits)])

(* ---- meta tags *)

\* 'meta[property="og:title"]', 'meta[name="twitter:title"]',
\* 'meta[name="title"]', 'meta[property="product:title"]',
\* 'meta[itemprop="name"]'
NumMetaTags == 5

MinTitleLen == 5

SepDash == <<" ", "-", " ">>
SepPipe == <<" ", "|", " ">>

\* does /\s[-|]\s/ match s at index i
SplitSepAt(s, i) ==
    /\ i + 2 <= Len(s)
    /\ IsSpace(s[i])
    /\ s[i + 1] \in {"-", "|"}
    /\ IsSpace(s[i + 2])

\* content.split(/\s[-|]\s/)[0]
FirstPart(s) ==
    LET hits == {i \in 1..Len(s) : SplitSepAt(s, i)} IN
    IF hits = {} THEN s ELSE SubSeq(s, 1, Least(hits) - 1)

\* the content the loop body works on: the content script and the test
\* script trim the attribute, the server does not
MetaContent(im, raw) == IF im = Server THEN raw ELSE Trim(raw)

\* content.length > 5
LongEnough(s) == Len(s) > MinTitleLen

\* does the loop body return (or break) on this tag
MetaAccepts(im, raw) ==
    LET content == MetaContent(im, raw)
        hasSep  == Includes(content, SepDash) \/ Includes(content, SepPipe)
    IN  /\ raw # EmptyStr
        /\ IF ~hasSep THEN LongEnough(content)
           ELSE FirstPart(content) # EmptyStr /\ LongEnough(FirstPart(content))

\* the title the loop body returns on this tag
MetaTitle(im, raw) ==
    LET content == MetaContent(im, raw)
        hasSep  == Includes(content, SepDash) \/ Includes(content, SepPipe)
    IN  IF ~hasSep THEN content ELSE Trim(FirstPart(content))

\* extractFromMetaTags / Method 2: idx is the tag the loop stopped at (0: none)
ExtractFromMetaTags(im, meta) ==
    LET hits == {i \in 1..NumMetaTags : MetaAccepts(im, meta[i])} IN
    IF hits = {} THEN [idx |-> 0, title |-> EmptyStr]
    ELSE [idx |-> Least(hits), title |-> MetaTitle(im, meta[Least(hits)])]

(* ---- DOM selectors *)

NumSelectorsClient == 29
NumSelectorsServer == 28

NumSelectors(im) ==
    IF im = Server THEN NumSelectorsServer ELSE NumSelectorsClient

MaxSelectorLen == 250

MinH1Len == 10
MaxH1Len == 200

UiPhrases == {<<"S", "h", "o", "p", "p", "i", "n", "g", " ", "C", "a", "r", "t">>,
              <<"C", "h", "e", "c", "k", "o", "u", "t">>,
              <<"L", "o", "g", "i", "n">>,
              <<"S", "i", "g", "n", " ", "i", "n">>}

\* a variant in which the selector loop has no upper limit on the text
SelectorAcceptsAnyLength(text) == Len(Trim(text)) > MinTitleLen

\* a variant in which a text of exactly 250 characters is accepted
SelectorAcceptsInclusive(text) ==
    Len(Trim(text)) > MinTitleLen /\ Len(Trim(text)) <= MaxSelectorLen

\* text.length > 5 && text.length < 250
SelectorAccepts(text) ==
    Len(Trim(text)) > MinTitleLen /\ Len(Trim(text)) < MaxSelectorLen

\* the selector loop: idx is the selector that matched (0: none)
ProbeSelectors(im, sel) ==
    LET hits == {i \in 1..NumSelectors(im) :
                    i <= Len(sel) /\ sel[i] # EmptyStr /\ SelectorAccepts(sel[i])}
    IN  IF hits = {} THEN [idx |-> 0, title |-> EmptyStr]
        ELSE [idx |-> Least(hits), title |-> Trim(sel[Least(hits)])]

\* text.length > 10 && text.length < 200 && none of the UI phrases
H1Accepts(text) ==
    /\ Len(Trim(text)) > MinH1Len
    /\ Len(Trim(text)) < MaxH1Len
    /\ \A p \in UiPhrases : ~Includes(Trim(text), p)

\* the loop over the h1 elements
ProbeH1(h1s) ==
    LET hits == {i \in 1..Len(h1s) : h1s[i] # EmptyStr /\ H1Accepts(h1s[i])} IN
    IF hits = {} THEN EmptyStr ELSE Trim(h1s[Least(hits)])

\* extractFromCommonSelectors: the selector loop, then the h1 elements;
\* selector is the index of the matching selector, "h1" or "" (null result)
ExtractFromCommonSelectors(im, sel, h1s) ==
    LET r == ProbeSelectors(im, sel) IN
    IF r.idx # 0 THEN [title |-> r.title, idx |-> r.idx, viaH1 |-> FALSE]
    ELSE [title |-> ProbeH1(h1s), idx |-> 0, viaH1 |-> ProbeH1(h1s) # EmptyStr]

(* ---- page title *)

MaxPageTitleLen == 200

\* a variant in which a hyphen is a separator without the spaces around it
SiteSeparatorsBareHyphen ==
    <<<<"-">>, <<" ", "|", " ">>, <<" ", "endash", " ">>,
      <<" ", "bullet", " ">>, <<" ", "chevron", " ">>, <<" ", ":", ":", " ">>>>

SiteSeparators == <<<<" ", "-", " ">>,
      <<" ", "|", " ">>,
      <<" ", "endash", " ">>,
      <<" ", "bullet", " ">>,
      <<" ", "chevron", " ">>,
      <<" ", ":", ":", " ">>>>

SiteSuffixes ==
    <<<<"A", "m", "a", "z", "o", "n", ".", "c", "o", "m">>,
      <<"A", "m", "a", "z", "o", "n">>,
      <<"W", "a", "l", "m", "a", "r", "t", ".", "c", "o", "m">>,
      <<"W", "a", "l", "m", "a", "r", "t">>,
      <<"T", "a", "r", "g", "e", "t">>,
      <<"B", "e", "s", "t", " ", "B", "u", "y">>,
      <<"N", "e", "w", "e", "g", "g", ".", "c", "o", "m">>,
      <<"N", "e", "w", "e", "g", "g">>,
      <<"e", "B", "a", "y">>,
      <<"E", "t", "s", "y">>,
      <<"H", "o", "m", "e", " ", "D", "e", "p", "o", "t">>,
      <<"L", "o", "w", "e", "'", "s">>,
      <<"S", "h", "o", "p">>,
      <<"O", "n", "l", "i", "n", "e", " ", "S", "h", "o", "p", "p", "i", "n", "g">>,
      <<"F", "r", "e", "e", " ", "S", "h", "i", "p", "p", "i", "n", "g">>,
      <<"O", "f", "f", "i", "c", "i", "a", "l", " ", "S", "i", "t", "e">>>>

StartsWith(s, p) == OccursAt(s, p, 1)

EndsWith(s, p) == Len(p) <= Len(s) /\ OccursAt(s, p, Len(s) - Len(p) + 1)

\* index of the first occurrence of p in s (s includes p)
IndexOf(s, p) == Least({i \in 1..(Len(s) + 1) : OccursAt(s, p, i)})

\* the separator loop: the first separator of the list that the title
\* includes; split on it, keep parts[0], trimmed; break
SplitOnSeparator(s) ==
    LET hits == {k \in 1..Len(SiteSeparators) : Includes(s, SiteSeparators[k])}
    IN  IF hits = {} THEN s
        ELSE Trim(SubSeq(s, 1, IndexOf(s, SiteSeparators[Least(hits)]) - 1))

\* one round of the suffix loop
StripSuffix(s, suffix) ==
    LET a == IF EndsWith(s, suffix)
             THEN Trim(SubSeq(s, 1, Len(s) - Len(suffix)))
             ELSE s
    IN  IF StartsWith(a, suffix)
        THEN Trim(SubSeq(a, Len(suffix) + 1, Len(a)))
        ELSE a

\* the suffix loop over SiteSuffixes[k..]
RECURSIVE StripSuffixesFrom(_, _)
StripSuffixesFrom(s, k) ==
    IF k > Len(SiteSuffixes) THEN s
    ELSE StripSuffixesFrom(StripSuffix(s, SiteSuffixes[k]), k + 1)

\* cleanTitle.replace(/\$\d+(\.\d+)?/, ''): the first match only
StripFirstPrice(s) ==
    LET hits == {j \in 1..Len(s) : PriceCoreAt(s, j)} IN
    IF hits = {} THEN s
    ELSE SubSeq(s, 1, Least(hits) - 1)
            \o SubSeq(s, PriceCoreEnd(s, Least(hits)), Len(s))

\* cleanTitle.replace(/\(\d+% Off\)/i, ''): the first match only
StripFirstDiscount(s) ==
    LET hits == {j \in 1..Len(s) : DiscountBodyEnd(s, j) # 0} IN
    IF hits = {} THEN s
    ELSE SubSeq(s, 1, Least(hits) - 1)
            \o SubSeq(s, DiscountBodyEnd(s, Least(hits)), Len(s))

\* the cleaning of the page title, before the final length test
CleanPageTitle(s) ==
    Trim(StripFirstDiscount(Trim(StripFirstPrice(
        StripSuffixesFrom(SplitOnSeparator(s), 1)))))

\* pageTitle.length < 5
PageTitleTooShort(s) == Len(s) < MinTitleLen

\* cleanTitle.length > 5 && cleanTitle.length < 200
PageTitleAccepts(s) == Len(s) > MinTitleLen /\ Len(s) < MaxPageTitleLen

\* extractFromPageTitle: EmptyStr is the null result
ExtractFromPageTitle(pageTitle) ==
    IF pageTitle = EmptyStr \/ PageTitleTooShort(pageTitle) THEN EmptyStr
    ELSE IF PageTitleAccepts(CleanPageTitle(pageTitle))
         THEN CleanPageTitle(pageTitle)
         ELSE EmptyStr

UnknownProduct == <<"U", "n", "k", "n", "o", "w", "n", " ", "P", "r", "o", "d", "u", "c", "t">>

\* Method 5 of the server: the same over $('title').text().trim(), with a
\* placeholder instead of nothing when the title is too short
ServerPageTitle(pageTitle) ==
    LET t == Trim(pageTitle) IN
    IF t = EmptyStr \/ PageTitleTooShort(t) THEN UnknownProduct
    ELSE IF PageTitleAccepts(CleanPageTitle(t)) THEN CleanPageTitle(t)
         ELSE EmptyStr

-----------------------------------------------------------------------------
(* Pages *)

NoBlock ==
    [valid |-> TRUE, type |-> "Other", name |-> EmptyStr, crumbs |-> <<>>,
     graph |-> <<>>, offer |-> FALSE, imageArray |-> FALSE]

TxtSdName    == <<"A", "c", "m", "e", " ", "P", "h", "o", "n", "e">>
TxtPriceOnly == <<"$", "1", "9", ".", "9", "9">>
TxtCrumbHome == <<"H", "o", "m", "e">>
TxtCrumbLeaf == <<"A", "c", "m", "e", " ", "C", "a", "s", "e">>
TxtGraphName == <<"A", "c", "m", "e", " ", "L", "a", "m", "p">>
TxtLikeName  == <<"A", "c", "m", "e", " ", "D", "e", "s", "k">>

BlkMalformed    == [NoBlock EXCEPT !.valid = FALSE]
BlkProduct      == [NoBlock EXCEPT !.type = "Product", !.name = TxtSdName]
BlkProductPrice == [NoBlock EXCEPT !.type = "Product", !.name = TxtPriceOnly]
BlkBreadcrumb   ==
    [NoBlock EXCEPT !.type = "BreadcrumbList",
                    !.crumbs = <<TxtCrumbHome, TxtCrumbLeaf>>]
BlkGraph        ==
    [NoBlock EXCEPT !.graph = <<[type |-> "WebPage", name |-> TxtCrumbHome],
                                [type |-> "Product", name |-> TxtGraphName]>>]
BlkProductLike  ==
    [NoBlock EXCEPT !.name = TxtLikeName, !.offer = TRUE, !.imageArray = TRUE]

BlockPool ==
    {BlkMalformed, BlkProduct, BlkProductPrice, BlkBreadcrumb, BlkGraph,
     BlkProductLike}

TxtMetaShort    == <<"S", "a", "l", "e", "!">>
TxtMetaOk       == <<"A", "c", "m", "e", " ", "P", "h", "o", "n", "e", " ", "X">>
TxtMetaSepShort == <<"S", "h", "o", "p", " ", "|", " ", "A", "c", "m", "e", " ", "P", "h", "o", "n", "e">>
TxtMetaSepOk    == <<"A", "c", "m", "e", " ", "P", "h", "o", "n", "e", " ", "P", "r", "o", " ", "-", " ", "S", "h", "o", "p">>
TxtMetaPadded   == <<" ", " ", "S", "a", "l", "e", " ", " ">>

TxtMetaSepPadded == <<"a", "b", "c", "d", " ", " ", " ", "-", " ", "S", "i", "t", "e">>

MetaPool ==
    {EmptyStr, TxtMetaShort, TxtMetaOk, TxtMetaSepShort, TxtMetaSepOk,
     TxtMetaPadded, TxtMetaSepPadded}

TxtSelShort == <<"A", "c", "m", "e", "!">>
TxtSelOk    == <<"A", "c", "m", "e", " ", "T", "V">>

SelPool ==
    {EmptyStr, TxtSelShort, TxtSelOk, TxtPriceOnly,
     Rep("y", MaxSelectorLen - 1), Rep("y", MaxSelectorLen),
     Rep("y", MaxSelectorLen + 1)}

TxtH1Short == <<"A", "c", "m", "e", " ", "R", "a", "d", "i", "o">>
TxtH1Ok    == <<"A", "c", "m", "e", " ", "R", "a", "d", "i", "o", "2">>
TxtH1Login == <<"L", "o", "g", "i", "n", " ", "t", "o", " ", "A", "c", "m", "e", " ", "S", "t", "o", "r", "e">>

H1Pool == {TxtH1Short, TxtH1Ok, TxtH1Login}

TxtTitleShort  == <<"H", "o", "m", "e">>
TxtTitleOk     == <<"A", "c", "m", "e", " ", "W", "a", "t", "c", "h", " ", "-", " ", "A", "m", "a", "z", "o", "n", ".", "c", "o", "m">>
TxtTitleSite   == <<"A", "m", "a", "z", "o", "n", ".", "c", "o", "m">>
TxtTitleSony   == <<"S", "o", "n", "y", " ", "W", "H", "-", "1", "0", "0", "0", "X", "M", "4", " ", "W", "i", "r", "e", "l", "e", "s", "s", " ", "N", "o", "i", "s", "e", " ", "C", "a", "n", "c", "e", "l", "i", "n", "g", " ", "H", "e", "a", "d", "p", "h", "o", "n", "e", "s", " ", "-", " ", "A", "m", "a", "z", "o", "n", ".", "c", "o", "m">>

TitlePool == {TxtTitleShort, TxtTitleOk, TxtTitleSite, TxtTitleSony}

TxtUrlTitle == <<"A", "c", "m", "e", " ", "M", "u", "g">>
TxtAsinTitle == <<"A", "m", "a", "z", "o", "n", " ", "P", "r", "o", "d", "u", "c", "t", " ", "B", "0", "0", "0", "0", "0", "0", "0", "0", "1">>
TxtProductFrom == <<"P", "r", "o", "d", "u", "c", "t", " ", "f", "r", "o", "m", " ">>
TxtSource == <<"S", "h", "o", "p", ".", "c", "o", "m">>

\* all sequences over S of length at most n
SeqUpTo(S, n) == UNION {[1..k -> S] : k \in 0..n}

\* the content attribute of each of the meta tags, the first n given by f
MetaOf(f) == [i \in 1..NumMetaTags |-> IF i <= Len(f) THEN f[i] ELSE EmptyStr]

\* a page: the ld+json blocks in document order, the content of each title
\* meta tag, the text of the first element of each title selector (the
\* selectors past Len(sel) match nothing), the text of each h1, the document
\* title; for the server also what the URL is like and whether the fetch
\* succeeds
Page(blocks, meta, sel, h1, ttl, asin, fetchOk, urlTitle) ==
    [blocks |-> blocks, meta |-> meta, sel |-> sel, h1 |-> h1, title |-> ttl,
     asinUrl |-> asin, fetchOk |-> fetchOk, urlTitle |-> urlTitle]

BasicBlocks == {<<>>, <<BlkProduct>>}
BasicMeta   == {MetaOf(<<>>), MetaOf(<<TxtMetaOk>>)}
BasicSel    == {<<>>, <<TxtSelOk>>}
BasicTitle  == {TxtTitleShort, TxtTitleOk}

\* every combination of the four strategies having or lacking a candidate,
\* with one part of the page drawn from its full pool
Pages ==
    {Page(b, m, s, <<>>, t, FALSE, TRUE, EmptyStr) :
        b \in SeqUpTo(BlockPool, MaxBlocks), m \in BasicMeta,
        s \in BasicSel, t \in BasicTitle}
    \cup
    {Page(b, MetaOf(f), s, <<>>, t, FALSE, TRUE, EmptyStr) :
        b \in BasicBlocks, f \in SeqUpTo(MetaPool, MaxMetaPresent),
        s \in BasicSel, t \in BasicTitle}
    \cup
    {Page(b, m, s, <<>>, t, FALSE, TRUE, EmptyStr) :
        b \in BasicBlocks, m \in BasicMeta,
        s \in SeqUpTo(SelPool, MaxSelPresent), t \in BasicTitle}
    \cup
    {Page(b, m, s, h, t, FALSE, TRUE, EmptyStr) :
        b \in BasicBlocks, m \in BasicMeta, s \in {<<>>},
        h \in SeqUpTo(H1Pool, MaxH1), t \in BasicTitle}
    \cup
    {Page(b, m, s, <<>>, t, FALSE, TRUE, EmptyStr) :
        b \in BasicBlocks, m \in BasicMeta, s \in BasicSel, t \in TitlePool}

\* pages whose URL the server answers from alone, or cannot fetch
ServerOnlyPages ==
    {Page(b, MetaOf(<<>>), <<>>, <<>>, t, TRUE, TRUE, EmptyStr) :
        b \in BasicBlocks, t \in BasicTitle}
    \cup
    {Page(b, MetaOf(<<>>), <<>>, <<>>, t, FALSE, FALSE, u) :
        b \in BasicBlocks, t \in BasicTitle, u \in {EmptyStr, TxtUrlTitle}}

-----------------------------------------------------------------------------
(* The aggregation variables while another specification runs *)

\* aggregatedScore left undefined by transformToSchema
Undefined == [undefined |-> TRUE]

RatingAggregator      == "rating_aggregator"
ComprehensiveAnalysis == "comprehensive_analysis"

AggIdle ==
    /\ aggImpl = RatingAggregator
    /\ ratings = <<>>
    /\ platformRatings = <<>>
    /\ aggregatedScore = Undefined
    /\ ratingsPlus = <<>>
    /\ aggregatedScorePlus = Undefined
    /\ aggPc = "done"

\* The variables of processInBatches while another specification runs
BatchIdle ==
    /\ tasks = <<>>
    /\ batchSize = 1
    /\ batchIndex = 0
    /\ taskState = <<>>
    /\ calls = <<>>
    /\ settleOrder = <<>>
    /\ results = <<>>
    /\ chunksRun = 0
    /\ batchPc = "done"

\* The variables of the probing while another specification runs
ProbeIdle ==
    /\ sourcePlatform = "Other"
    /\ sourcePage = "no_rating"
    /\ openai = "empty"
    /\ probeOutcome = <<>>
    /\ probePc = "done"

\* The variables of the platform identification while another specification
\* runs
PlatformIdle ==
    /\ platformImpl = "getPlatformFromUrl"
    /\ platformUrl = [parses |-> FALSE, hostname |-> <<>>]
    /\ platformResult = [called |-> FALSE]

\* The variables of the title extraction while another specification runs
TitleIdle ==
    /\ titleImpl = "extractFromPageTitle"
    /\ docTitle = <<>>
    /\ cleanTitle = <<>>
    /\ titleLog = <<>>
    /\ titleReturned = <<>>
    /\ titlePc = "done"

-----------------------------------------------------------------------------
(* Spec: one run of product detection (detectProduct in the content script *)
(* and in the test script, extractProductFromUrl on the server) over every *)
(* page of Pages.                                                           *)

NoResult == [returned |-> FALSE, present |-> FALSE, title |-> EmptyStr,
             method |-> "", selector |-> 0]

NormIdle ==
    /\ normIn = EmptyStr
    /\ normOut1 = EmptyStr
    /\ normOut2 = EmptyStr
    /\ normStep = 0

Init ==
    /\ NormIdle
    /\ AggIdle
    /\ BatchIdle
    /\ ProbeIdle
    /\ PlatformIdle
    /\ TitleIdle
    /\ impl \in Impls
    /\ page \in Pages \cup (IF impl = Server THEN ServerOnlyPages ELSE {})
    /\ pc = IF impl = Server THEN "url_pattern" ELSE "structured_data"
    /\ title = EmptyStr
    /\ detectionMethod = ""
    /\ detectionSelector = 0
    /\ trace = <<>>
    /\ result = NoResult

\* a variant in which every strategy runs whether or not a title has been found
NoTitleYetAlways(t) == TRUE

\* if (!title) / if (!productTitle): the guard of every strategy after the
\* first
NoTitleYet(t) == t = EmptyStr

\* one consulted strategy and what it returned
Consulted(strategy, candidate, idx) ==
    [strategy |-> strategy, title |-> candidate, idx |-> idx]

\* the statement after a strategy
AfterStrategy(strategy) ==
    CASE strategy = "structured_data"  -> "meta_tags"
      [] strategy = "meta_tags"        -> "common_selectors"
      [] strategy = "common_selectors" ->
            IF impl = Server THEN "generic_h1" ELSE "page_title"
      [] strategy = "generic_h1"       -> "page_title"
      [] strategy = "page_title"       ->
            IF impl = ContentScript THEN "return" ELSE "post_process"

\* the server answers from URL patterns alone when they give a title
UrlPatternDetection ==
    /\ pc = "url_pattern"
    /\ IF page.asinUrl
       THEN /\ title' = TxtAsinTitle
            /\ result' = [returned |-> TRUE, present |-> TRUE,
                          title |-> TxtAsinTitle, method |-> "", selector |-> 0]
            /\ pc' = "done"
       ELSE /\ pc' = "fetch"
            /\ UNCHANGED <<title, result>>
    /\ UNCHANGED <<impl, page, detectionMethod, detectionSelector, trace>>
    /\ UNCHANGED <<normVars, aggVars, batchVars, probeVars, platformVars, titleVars>>

\* attemptFetch: a failure throws to the catch block of the fetch
FetchPage ==
    /\ pc = "fetch"
    /\ pc' = IF page.fetchOk THEN "structured_data" ELSE "url_fallback"
    /\ UNCHANGED <<impl, page, title, detectionMethod, detectionSelector,
                   trace, result>>
    /\ UNCHANGED <<normVars, aggVars, batchVars, probeVars, platformVars, titleVars>>

\* structured data is tried first, unconditionally
TryStructuredData ==
    /\ pc = "structured_data"
    /\ LET c == ExtractStructuredData(impl, page.blocks) IN
        /\ trace' = Append(trace, Consulted("structured_data", c, 0))
        /\ IF c # EmptyStr
           THEN /\ title' = c
                /\ detectionMethod' =
                      IF impl = Server THEN "" ELSE "structured_data"
           ELSE UNCHANGED <<title, detectionMethod>>
    /\ pc' = AfterStrategy("structured_data")
    /\ UNCHANGED <<impl, page, detectionSelector, result>>
    /\ UNCHANGED <<normVars, aggVars, batchVars, probeVars, platformVars, titleVars>>

\* if (!title) meta tags
TryMetaTags ==
    /\ pc = "meta_tags"
    /\ IF NoTitleYet(title)
       THEN LET r == ExtractFromMetaTags(impl, page.meta) IN
            /\ trace' = Append(trace, Consulted("meta_tags", r.title, r.idx))
            /\ IF r.title # EmptyStr
               THEN /\ title' = r.title
                    /\ detectionMethod' =
                          IF impl = Server THEN "" ELSE "meta_tags"
               ELSE UNCHANGED <<title, detectionMethod>>
       ELSE UNCHANGED <<trace, title, detectionMethod>>
    /\ pc' = AfterStrategy("meta_tags")
    /\ UNCHANGED <<impl, page, detectionSelector, result>>
    /\ UNCHANGED <<normVars, aggVars, batchVars, probeVars, platformVars, titleVars>>

\* if (!title) common selectors; in the content script and the test script
\* the h1 elements belong to this strategy
TryCommonSelectors ==
    /\ pc = "common_selectors"
    /\ IF NoTitleYet(title)
       THEN IF impl = Server
            THEN LET r == ProbeSelectors(impl, page.sel) IN
                 /\ trace' = Append(trace,
                                Consulted("common_selectors", r.title, r.idx))
                 /\ title' = r.title
                 /\ UNCHANGED <<detectionMethod, detectionSelector>>
            ELSE LET r == ExtractFromCommonSelectors(impl, page.sel, page.h1)
                     idx == IF r.viaH1 THEN NumSelectors(impl) + 1 ELSE r.idx
                 IN  /\ trace' = Append(trace,
                                Consulted("common_selectors", r.title, idx))
                     /\ IF r.title # EmptyStr
                        THEN /\ title' = r.title
                             /\ detectionMethod' = "common_selectors"
                             /\ detectionSelector' = idx
                        ELSE UNCHANGED <<title, detectionMethod,
                                         detectionSelector>>
       ELSE UNCHANGED <<trace, title, detectionMethod, detectionSelector>>
    /\ pc' = AfterStrategy("common_selectors")
    /\ UNCHANGED <<impl, page, result>>
    /\ UNCHANGED <<normVars, aggVars, batchVars, probeVars, platformVars, titleVars>>

\* Method 4 of the server: if (!productTitle) the h1 elements
TryGenericH1 ==
    /\ pc = "generic_h1"
    /\ IF NoTitleYet(title)
       THEN LET c == ProbeH1(page.h1) IN
            /\ trace' = Append(trace, Consulted("generic_h1", c, 0))
            /\ title' = c
       ELSE UNCHANGED <<trace, title>>
    /\ pc' = AfterStrategy("generic_h1")
    /\ UNCHANGED <<impl, page, detectionMethod, detectionSelector, result>>
    /\ UNCHANGED <<normVars, aggVars, batchVars, probeVars, platformVars, titleVars>>

\* if (!title) the page title, the last resort
TryPageTitle ==
    /\ pc = "page_title"
    /\ IF NoTitleYet(title)
       THEN LET c == IF impl = Server THEN ServerPageTitle(page.title)
                     ELSE ExtractFromPageTitle(page.title)
            IN  /\ trace' = Append(trace, Consulted("page_title", c, 0))
                /\ IF c # EmptyStr
                   THEN /\ title' = c
                        /\ detectionMethod' =
                              IF impl = Server THEN "" ELSE "page_title"
                   ELSE UNCHANGED <<title, detectionMethod>>
       ELSE UNCHANGED <<trace, title, detectionMethod>>
    /\ pc' = AfterStrategy("page_title")
    /\ UNCHANGED <<impl, page, detectionSelector, result>>
    /\ UNCHANGED <<normVars, aggVars, batchVars, probeVars, platformVars, titleVars>>

\* the test script and the server clean the title they have
PostProcess ==
    /\ pc = "post_process"
    /\ title' = NormalizeTitle(title)
    /\ pc' = IF impl = Server THEN "generic_fallback" ELSE "return"
    /\ UNCHANGED <<impl, page, detectionMethod, detectionSelector, trace,
                   result>>
    /\ UNCHANGED <<normVars, aggVars, batchVars, probeVars, platformVars, titleVars>>

\* the catch block of the server's fetch: a title from the URL's query
\* parameters or last path segment, when it has one
UrlFallback ==
    /\ pc = "url_fallback"
    /\ title' = page.urlTitle
    /\ pc' = "generic_fallback"
    /\ UNCHANGED <<impl, page, detectionMethod, detectionSelector, trace,
                   result>>
    /\ UNCHANGED <<normVars, aggVars, batchVars, probeVars, platformVars, titleVars>>

\* if (!productTitle) productTitle = `Product from ${source}`
GenericFallback ==
    /\ pc = "generic_fallback"
    /\ title' = IF title = EmptyStr THEN TxtProductFrom \o TxtSource ELSE title
    /\ pc' = "return"
    /\ UNCHANGED <<impl, page, detectionMethod, detectionSelector, trace,
                   result>>
    /\ UNCHANGED <<normVars, aggVars, batchVars, probeVars, platformVars, titleVars>>

\* a variant in which the return does not test the title
TitlePresentAlways(t) == TRUE

\* the presence test of the return: if (title) in the content script and
\* the test script; the server returns a product unconditionally
TitlePresent(t) == t # EmptyStr

ReturnResult ==
    /\ pc = "return"
    /\ result' =
          IF impl = Server \/ TitlePresent(title)
          THEN [returned |-> TRUE, present |-> TRUE, title |-> title,
                method |-> detectionMethod, selector |-> detectionSelector]
          ELSE [NoResult EXCEPT !.returned = TRUE]
    /\ pc' = "done"
    /\ UNCHANGED <<impl, page, title, detectionMethod, detectionSelector,
                   trace>>
    /\ UNCHANGED <<normVars, aggVars, batchVars, probeVars, platformVars, titleVars>>

Next ==
    \/ UrlPatternDetection
    \/ FetchPage
    \/ TryStructuredData
    \/ TryMetaTags
    \/ TryCommonSelectors
    \/ TryGenericH1
    \/ TryPageTitle
    \/ PostProcess
    \/ UrlFallback
    \/ GenericFallback
    \/ ReturnResult

Spec == Init /\ [][Next]_vars

-----------------------------------------------------------------------------
(* Properties of the extraction cascade (Spec) *)

\* the fixed order of the strategies; the server tries the h1 elements as a
\* step of its own
StrategyOrder(im) ==
    IF im = Server
    THEN <<"structured_data", "meta_tags", "common_selectors", "generic_h1",
           "page_title">>
    ELSE <<"structured_data", "meta_tags", "common_selectors", "page_title">>

\* what the implementation makes of an accepted candidate before it returns
Finished(im, t) == IF im = ContentScript THEN t ELSE NormalizeTitle(t)

NeverAccepted == \A i \in 1..Len(trace) : trace[i].title = EmptyStr

\* C1: the strategies are consulted in the fixed order structured data, meta
\* tags, DOM selectors (with the h1 elements), page title; a strategy is
\* consulted only if every earlier one produced nothing, and every one is
\* consulted until one accepts; a returned product carries the candidate of
\* the first strategy that accepted (post-processed where the implementation
\* post-processes), and the detection method names that strategy.  So a page
\* with a structured-data Product name and a matching title selector gives
\* the structured-data title.
CascadeFirstAcceptWins ==
    /\ \A i \in 1..Len(trace) :
          /\ i <= Len(StrategyOrder(impl))
          /\ trace[i].strategy = StrategyOrder(impl)[i]
          /\ \A j \in 1..(i - 1) : trace[j].title = EmptyStr
    /\ (result.returned /\ trace # <<>>) =>
          LET last == trace[Len(trace)] IN
          /\ last.title = EmptyStr => Len(trace) = Len(StrategyOrder(impl))
          /\ (result.present /\ Finished(impl, last.title) # EmptyStr) =>
                result.title = Finished(impl, last.title)
          /\ (result.present /\ impl # Server) =>
                /\ last.title # EmptyStr
                /\ result.method = last.strategy
          /\ (result.present /\ ExtractStructuredData(impl, page.blocks) # EmptyStr) =>
                /\ Len(trace) = 1
                /\ result.title # EmptyStr
                /\ Finished(impl, ExtractStructuredData(impl, page.blocks)) # EmptyStr
                      => result.title =
                            Finished(impl, ExtractStructuredData(impl, page.blocks))

\* C1 witness: the content script has returned the structured-data name of
\* a page that also has an element matching a title selector
CascadeFirstAcceptWinsWitness ==
    /\ result.returned
    /\ impl = ContentScript
    /\ ExtractStructuredData(impl, page.blocks) = TxtSdName
    /\ ProbeSelectors(impl, page.sel).title = TxtSelOk
    /\ result.present
    /\ result.title = TxtSdName
    /\ result.method = "structured_data"

\* a page with no ld+json block, no title meta tag, no element matching a
\* title selector, no h1, and a document title shorter than 5 characters
NothingPage(p) ==
    /\ p.blocks = <<>>
    /\ \A i \in 1..NumMetaTags : p.meta[i] = EmptyStr
    /\ p.sel = <<>>
    /\ p.h1 = <<>>
    /\ Len(p.title) < MinTitleLen

\* C2 (as claimed): on such a page extraction returns no product
NothingPageYieldsAbsent ==
    (result.returned /\ trace # <<>> /\ NothingPage(page)) => ~result.present

MetaAndSelectorBounds ==
    \A i \in 1..Len(trace) :
        /\ trace[i].strategy = "meta_tags" =>
              /\ trace[i].idx # 0 => Len(page.meta[trace[i].idx]) > MinTitleLen
              /\ \A k \in 1..NumMetaTags :
                    ( /\ Len(Trim(page.meta[k])) > MinTitleLen
                      /\ ~Includes(page.meta[k], SepDash)
                      /\ ~Includes(page.meta[k], SepPipe) )
                    => trace[i].idx \in 1..k
        /\ trace[i].strategy = "common_selectors" =>
              /\ trace[i].idx \in 1..Len(page.sel) =>
                    Len(Trim(page.sel[trace[i].idx])) <= MaxSelectorLen
              /\ \A k \in 1..Len(page.sel) :
                    ( /\ Len(Trim(page.sel[k])) > MinTitleLen
                      /\ Len(Trim(page.sel[k])) < MaxSelectorLen )
                    => trace[i].idx \in 1..k

\* C4 witness: the first meta tag has 5 characters, and the strategy returned
\* on the second
MetaAndSelectorBoundsWitness ==
    /\ Len(trace) >= 2
    /\ trace[2].strategy = "meta_tags"
    /\ page.meta[1] = TxtMetaShort
    /\ trace[2].idx = 2
    /\ trace[2].title = TxtMetaOk

-----------------------------------------------------------------------------
(* SpecNorm: raw titles put together from tokens, post-processed twice *)

TokWord     == <<"S", "o", "n", "y">>
TokSpace    == <<" ">>
TokTab      == <<"\t">>
TokPrice    == <<"$", "9", ".", "5">>
TokDiscount == <<"(", "5", "%", " ", "O", "f", "f", ")">>
TokHashSku  == <<" ", "#", "A", "1">>
TokParenSku == <<" ", "(", "X", "L", ")">>
TokLong     == Rep("x", MaxTitleLen - Len(TokWord))

Tokens ==
    {TokWord, TokSpace, TokTab, TokPrice, TokDiscount, TokHashSku, TokParenSku}

\* up to MaxTokens tokens, alone or after a long run of letters
RawTitles ==
    {pre \o Concat(ts) :
        pre \in {EmptyStr, TokLong},
        ts \in UNION {[1..n -> Tokens] : n \in 0..MaxTokens}}

DetectIdle ==
    /\ impl = TestScript
    /\ page = Page(<<>>, MetaOf(<<>>), <<>>, <<>>, EmptyStr, FALSE, TRUE, EmptyStr)
    /\ pc = "done"
    /\ title = EmptyStr
    /\ detectionMethod = ""
    /\ detectionSelector = 0
    /\ trace = <<>>
    /\ result = NoResult

InitNorm ==
    /\ normIn \in RawTitles
    /\ normOut1 = EmptyStr
    /\ normOut2 = EmptyStr
    /\ normStep = 0
    /\ DetectIdle
    /\ AggIdle
    /\ BatchIdle
    /\ ProbeIdle
    /\ PlatformIdle
    /\ TitleIdle

\* the post-processing block run on the accepted title
NormalizeOnce ==
    /\ normStep = 0
    /\ normOut1' = NormalizeTitle(normIn)
    /\ normStep' = 1
    /\ UNCHANGED <<normIn, normOut2>>
    /\ UNCHANGED <<detectVars, aggVars, batchVars, probeVars, platformVars, titleVars>>

\* the post-processing block run on an already post-processed title
NormalizeAgain ==
    /\ normStep = 1
    /\ normOut2' = NormalizeTitle(normOut1)
    /\ normStep' = 2
    /\ UNCHANGED <<normIn, normOut1>>
    /\ UNCHANGED <<detectVars, aggVars, batchVars, probeVars, platformVars, titleVars>>

NextNorm == NormalizeOnce \/ NormalizeAgain

SpecNorm == InitNorm /\ [][NextNorm]_vars

\* C5 (as claimed): a second pass changes nothing
NormalizeIdempotent == normStep = 2 => normOut2 = normOut1

\* C6 (as claimed): at most 150 characters after post-processing
NormalizedAtMost150 == normStep >= 1 => Len(normOut1) <= MaxTitleLen

\* C6: at most 153 characters after post-processing: a cleaned title of
\* more than 150 characters comes out as its first 150 characters followed
\* by the three-character marker "...", a cleaned title of at most 150
\* characters comes out as it is
NormalizedAtMost153 ==
    normStep >= 1 =>
        /\ Len(normOut1) <= MaxTitleLen + Len(Ellipsis)
        /\ Len(normOut1) > MaxTitleLen =>
              /\ Len(normOut1) = MaxTitleLen + Len(Ellipsis)
              /\ SubSeq(normOut1, MaxTitleLen + 1, Len(normOut1)) = Ellipsis
              /\ Len(CleanTitle(normIn)) > MaxTitleLen
              /\ SubSeq(normOut1, 1, MaxTitleLen)
                    = SubSeq(CleanTitle(normIn), 1, MaxTitleLen)
        /\ (normIn # EmptyStr /\ Len(CleanTitle(normIn)) <= MaxTitleLen) =>
              normOut1 = CleanTitle(normIn)

\* C6 witness: a raw title of 154 characters came out 153 characters long
NormalizedAtMost153Witness ==
    /\ normStep >= 1
    /\ normIn = TokLong \o TokWord \o TokWord
    /\ Len(normOut1) = MaxTitleLen + Len(Ellipsis)

-----------------------------------------------------------------------------
(* Rating aggregation.                                                      *)
(*   "rating_aggregator"      RatingAggregatorService: fetchPlatformRatings *)
(*                            then getAggregatedScore                       *)
(*   "comprehensive_analysis" ComprehensiveAnalysisService:                 *)
(*                            transformToSchema then                        *)
(*                            validateAndCleanupAnalysis                    *)
(* An observation is [platform, rating, reviewCount]; ratings are in tenths *)
(* of a star, so 45 is 4.5.  Ratings and review counts are not negative.    *)
(* Numbers that are not integers are fractions [num, den] in lowest terms.  *)

AggImpls == {RatingAggregator, ComprehensiveAnalysis}

Min(a, b) == IF a <= b THEN a ELSE b

RECURSIVE Gcd(_, _)
Gcd(a, b) == IF b = 0 THEN a ELSE Gcd(b, a % b)

\* the fraction n / d (n >= 0, d > 0) in lowest terms
Frac(n, d) == [num |-> n \div Gcd(n, d), den |-> d \div Gcd(n, d)]

\* a variant in which the last digit kept is cut off, not rounded
FloorDiv(a, b) == a \div b

\* a / b rounded to the nearest integer, halves up: what toFixed does to the
\* last digit it keeps
RoundDiv(a, b) == (2 * a + b) \div (2 * b)

RECURSIVE SumSeq(_)
SumSeq(ns) == IF ns = <<>> THEN 0 ELSE Head(ns) + SumSeq(Tail(ns))

(* ---- Math.log10 in fixed point *)

\* Log10Fix(x) is log10(x) in units of 1 / LogScale, rounded down: the
\* integer part is the number of decimal digits less one, each further bit
\* comes from squaring the mantissa, which is kept in units of 1 / MantScale
LogFracBits == 10
LogScale    == 1024
MantScale   == 4096

RECURSIVE Pow10(_)
Pow10(k) == IF k = 0 THEN 1 ELSE 10 * Pow10(k - 1)

\* largest argument the fixed-point arithmetic takes
MaxLogArg == 99999

DecimalExponent(x) == CHOOSE k \in 0..4 : Pow10(k) <= x /\ x < Pow10(k + 1)

RECURSIVE LogBits(_, _)
LogBits(y, n) ==
    IF n = 0 THEN 0
    ELSE LET sq == (y * y) \div MantScale IN
         IF sq >= 10 * MantScale
         THEN 2^(n - 1) + LogBits(sq \div 10, n - 1)
         ELSE LogBits(sq, n - 1)

\* Math.log10(x) for an integer x in 1..MaxLogArg
Log10Fix(x) ==
    LET k == DecimalExponent(x) IN
    k * LogScale + LogBits((x * MantScale) \div Pow10(k), LogFracBits)

(* ---- RatingAggregatorService *)

\* PLATFORM_WEIGHTS[platform] || PLATFORM_WEIGHTS['Other']
PlatformWeight(platform) ==
    CASE platform = "Amazon.com"     -> 9
      [] platform = "BestBuy.com"    -> 8
      [] platform = "Walmart.com"    -> 8
      [] platform = "Target.com"     -> 7
      [] platform = "Newegg.com"     -> 7
      [] platform = "Reddit"         -> 6
      [] platform = "Expert Reviews" -> 8
      [] platform = "YouTube"        -> 6
      [] OTHER                       -> 4

\* the conversion of the results obtained to PlatformRating
ToPlatformRating(o) ==
    [platform |-> o.platform, rating |-> o.rating,
     reviewCount |-> o.reviewCount, verified |-> o.verified,
     weight |-> PlatformWeight(o.platform)]

\* a variant in which a later observation always replaces the one held
ReplacesAlways(rating, existing) == TRUE

\* rating.reviewCount > existing.reviewCount
Replaces(rating, existing) == rating.reviewCount > existing.reviewCount

\* platformMap.get / platformMap.set: the Map is the sequence of its values
\* in insertion order, and setting a key it holds keeps the key's place
MapHas(m, platform) == \E i \in 1..Len(m) : m[i].platform = platform

MapGet(m, platform) == m[CHOOSE i \in 1..Len(m) : m[i].platform = platform]

MapSet(m, rating) ==
    IF MapHas(m, rating.platform)
    THEN [i \in 1..Len(m) |->
            IF m[i].platform = rating.platform THEN rating ELSE m[i]]
    ELSE Append(m, rating)

\* the loop of getUniquePlatformRatings over ratings[i..]
RECURSIVE UniqueFrom(_, _, _)
UniqueFrom(m, rs, i) ==
    IF i > Len(rs) THEN m
    ELSE IF ~MapHas(m, rs[i].platform) \/ Replaces(rs[i], MapGet(m, rs[i].platform))
         THEN UniqueFrom(MapSet(m, rs[i]), rs, i + 1)
         ELSE UniqueFrom(m, rs, i + 1)

getUniquePlatformRatings(rs) == UniqueFrom(<<>>, rs, 1)

\* what fetchPlatformRatings returns for the observations obtained
fetchPlatformRatings(obs) ==
    getUniquePlatformRatings([i \in 1..Len(obs) |-> ToPlatformRating(obs[i])])

\* a variant in which the weight is the platform's trust weight alone
EffectiveWeightTrustOnly(r) == r.weight * LogScale

\* rating.weight * Math.min(Math.log10(rating.reviewCount + 1), 5), in units
\* of 1 / LogScale
EffectiveWeight(r) == r.weight * Min(Log10Fix(r.reviewCount + 1), 5 * LogScale)

\* the value getAggregatedScore returns for platformRatings
getAggregatedScore(prs) ==
    IF Len(prs) = 0
    THEN [overallScore |-> Frac(0, 1), totalReviewCount |-> 0,
          confidenceScore |-> Frac(0, 1), platformBreakdown |-> <<>>]
    ELSE
      LET weightedSum == SumSeq([i \in 1..Len(prs) |->
                                  prs[i].rating * EffectiveWeight(prs[i])])
          weightSum   == SumSeq([i \in 1..Len(prs) |-> EffectiveWeight(prs[i])])
          totalReviewCount == SumSeq([i \in 1..Len(prs) |-> prs[i].reviewCount])
          \* overallScore.toFixed(1), in tenths
          overallScore == IF weightSum > 0 THEN RoundDiv(weightedSum, weightSum)
                          ELSE 0
          \* platformCountFactor * 0.5 = Math.min(length / 5, 1) * 0.5, in
          \* hundredths
          platformHalf == 10 * Min(Len(prs), 5)
          \* reviewCountFactor * 0.5 =
          \* Math.min(Math.log10(totalReviewCount + 1) / 3, 1) * 0.5, in
          \* hundredths, rounded as confidenceScore.toFixed(2) rounds the sum
          reviewHalf == RoundDiv(50 * Min(Log10Fix(totalReviewCount + 1),
                                          3 * LogScale),
                                 3 * LogScale)
      IN  [overallScore |-> Frac(overallScore, 10),
           totalReviewCount |-> totalReviewCount,
           confidenceScore |-> Frac(platformHalf + reviewHalf, 100),
           platformBreakdown |-> prs]

(* ---- ComprehensiveAnalysisService *)

\* the mapping of raw.aggregatedScore.platformBreakdown; the raw entries
\* carry no weight, so weight is 1
ToBreakdownEntry(o) ==
    [platform |-> o.platform, rating |-> o.rating,
     reviewCount |-> o.reviewCount, verified |-> o.verified, weight |-> 1]

\* platform.rating > 0 && platform.reviewCount > 0
Counted(e) == e.rating > 0 /\ e.reviewCount > 0

\* the aggregatedScore of the value transformToSchema returns
transformToSchema(obs) ==
    LET platformBreakdown == [i \in 1..Len(obs) |-> ToBreakdownEntry(obs[i])]
        counted == SelectSeq(platformBreakdown, Counted)
        totalWeightedScore ==
            SumSeq([i \in 1..Len(counted) |->
                      counted[i].rating * counted[i].reviewCount])
        totalWeight  == SumSeq([i \in 1..Len(counted) |-> counted[i].reviewCount])
        totalReviews == totalWeight
        \* (length / 5) * 0.5 + Math.min(1, Math.log10(totalReviews + 1) / 4) * 0.5
        \* over the denominator 40 * LogScale
        sum == 4 * LogScale * Len(platformBreakdown)
                 + 5 * Min(4 * LogScale, Log10Fix(totalReviews + 1))
        \* Math.min(0.95, ...)
        confidenceScore == IF 100 * sum > 95 * (40 * LogScale)
                           THEN Frac(95, 100)
                           ELSE Frac(sum, 40 * LogScale)
    IN  IF Len(platformBreakdown) > 0
        THEN [overallScore |-> IF totalWeight > 0
                               THEN Frac(totalWeightedScore, 10 * totalWeight)
                               ELSE Frac(0, 1),
              totalReviewCount |-> totalReviews,
              confidenceScore |-> confidenceScore,
              platformBreakdown |-> platformBreakdown]
        ELSE Undefined

\* the aggregatedScore of the value validateAndCleanupAnalysis returns
validateAndCleanupAnalysis(score) ==
    IF score = Undefined
    THEN [overallScore |-> Frac(0, 1), totalReviewCount |-> 0,
          confidenceScore |-> Frac(1, 2), platformBreakdown |-> <<>>]
    ELSE score

\* the aggregated score a service gives for the observations obtained
Aggregate(im, obs) ==
    IF im = RatingAggregator
    THEN getAggregatedScore(fetchPlatformRatings(obs))
    ELSE validateAndCleanupAnalysis(transformToSchema(obs))

-----------------------------------------------------------------------------
(* SpecAgg: one aggregation over every list of ObservationLists, then the   *)
(* same aggregation over the list with one zero-count observation for a    *)
(* platform it does not name put in at any place                            *)

\* an observation with its verified flag
ObservationWith(platform, rating, reviewCount, verified) ==
    [platform |-> platform, rating |-> rating, reviewCount |-> reviewCount,
     verified |-> verified]

\* a verified observation
Observation(platform, rating, reviewCount) ==
    ObservationWith(platform, rating, reviewCount, TRUE)

PoolPlatforms == {"Amazon.com", "Acme Store"}
PoolRatings   == {0, 30, 45}
PoolCounts    == {0, 10, 1000}

ObservationPool ==
    {Observation(p, r, n) :
        p \in PoolPlatforms, r \in PoolRatings, n \in PoolCounts}

BulkPlatforms ==
    <<"BestBuy.com", "Walmart.com", "Target.com", "Newegg.com", "Reddit",
      "YouTube">>

BulkRating == 40
BulkCount  == 200

\* the first k bulk observations
Bulk(k) ==
    [i \in 1..Min(k, Len(BulkPlatforms)) |->
        Observation(BulkPlatforms[i], BulkRating, BulkCount)]

\* the same platform reported under two spellings, in either order
LowerCasePlatform == "amazon.com"

CasePairs ==
    UNION {{<<Observation(LowerCasePlatform, 30, n), Observation("Amazon.com", 45, m)>>,
            <<Observation("Amazon.com", 45, m), Observation(LowerCasePlatform, 30, n)>>}
           : n \in PoolCounts, m \in PoolCounts}

\* two observations of one platform with the same review count, one of
\* them verified, in either order
TiePairs ==
    UNION {{<<ObservationWith("Amazon.com", 45, n, TRUE),
              ObservationWith("Amazon.com", 30, n, FALSE)>>,
            <<ObservationWith("Amazon.com", 30, n, FALSE),
              ObservationWith("Amazon.com", 45, n, TRUE)>>}
           : n \in PoolCounts}

\* up to MaxObs observations from the pool in any order, or up to one of
\* them followed by up to MaxBulk observations of further platforms
ObservationLists ==
    SeqUpTo(ObservationPool, MaxObs)
    \cup {o \o Bulk(k) : o \in SeqUpTo(ObservationPool, 1), k \in 1..MaxBulk}
    \cup CasePairs
    \cup TiePairs

NewPlatform == "Expert Reviews"

ZeroCountObservations == {Observation(NewPlatform, r, 0) : r \in PoolRatings}

\* s with x put in before place i
InsertAt(s, i, x) == SubSeq(s, 1, i - 1) \o <<x>> \o SubSeq(s, i, Len(s))

InitAgg ==
    /\ NormIdle
    /\ DetectIdle
    /\ BatchIdle
    /\ ProbeIdle
    /\ PlatformIdle
    /\ TitleIdle
    /\ aggImpl \in AggImpls
    /\ ratings \in ObservationLists
    /\ platformRatings = <<>>
    /\ aggregatedScore = Undefined
    /\ ratingsPlus = <<>>
    /\ aggregatedScorePlus = Undefined
    /\ aggPc = "start"

\* RatingAggregatorService.fetchPlatformRatings
FetchPlatformRatings ==
    /\ aggImpl = RatingAggregator
    /\ aggPc = "start"
    /\ platformRatings' = fetchPlatformRatings(ratings)
    /\ aggPc' = "fetched"
    /\ UNCHANGED <<aggImpl, ratings, aggregatedScore, ratingsPlus,
                   aggregatedScorePlus>>
    /\ UNCHANGED <<normVars, detectVars, batchVars, probeVars, platformVars, titleVars>>

\* RatingAggregatorService.getAggregatedScore, after the fetch
GetAggregatedScore ==
    /\ aggImpl = RatingAggregator
    /\ aggPc = "fetched"
    /\ aggregatedScore' = getAggregatedScore(platformRatings)
    /\ aggPc' = "aggregated"
    /\ UNCHANGED <<aggImpl, ratings, platformRatings, ratingsPlus,
                   aggregatedScorePlus>>
    /\ UNCHANGED <<normVars, detectVars, batchVars, probeVars, platformVars, titleVars>>

\* ComprehensiveAnalysisService.transformToSchema
TransformToSchema ==
    /\ aggImpl = ComprehensiveAnalysis
    /\ aggPc = "start"
    /\ aggregatedScore' = transformToSchema(ratings)
    /\ aggPc' = "transformed"
    /\ UNCHANGED <<aggImpl, ratings, platformRatings, ratingsPlus,
                   aggregatedScorePlus>>
    /\ UNCHANGED <<normVars, detectVars, batchVars, probeVars, platformVars, titleVars>>

\* ComprehensiveAnalysisService.validateAndCleanupAnalysis
ValidateAndCleanupAnalysis ==
    /\ aggImpl = ComprehensiveAnalysis
    /\ aggPc = "transformed"
    /\ aggregatedScore' = validateAndCleanupAnalysis(aggregatedScore)
    /\ aggPc' = "aggregated"
    /\ UNCHANGED <<aggImpl, ratings, platformRatings, ratingsPlus,
                   aggregatedScorePlus>>
    /\ UNCHANGED <<normVars, detectVars, batchVars, probeVars, platformVars, titleVars>>

\* the same service run on the list with one more observation
AggregateWithZeroCount ==
    /\ aggPc = "aggregated"
    /\ \E z \in ZeroCountObservations, i \in 1..(Len(ratings) + 1) :
          /\ ratingsPlus' = InsertAt(ratings, i, z)
          /\ aggregatedScorePlus' = Aggregate(aggImpl, InsertAt(ratings, i, z))
    /\ aggPc' = "compared"
    /\ UNCHANGED <<aggImpl, ratings, platformRatings, aggregatedScore>>
    /\ UNCHANGED <<normVars, detectVars, batchVars, probeVars, platformVars, titleVars>>

NextAgg ==
    \/ FetchPlatformRatings
    \/ GetAggregatedScore
    \/ TransformToSchema
    \/ ValidateAndCleanupAnalysis
    \/ AggregateWithZeroCount

SpecAgg == InitAgg /\ [][NextAgg]_vars

Aggregated == aggPc \in {"aggregated", "compared"}

\* C7: putting a zero-count observation for a new platform into the list
\* leaves overallScore and totalReviewCount as they were
ZeroCountChangesNothing ==
    aggPc = "compared" =>
        /\ aggregatedScorePlus.overallScore = aggregatedScore.overallScore
        /\ aggregatedScorePlus.totalReviewCount = aggregatedScore.totalReviewCount

\* C7 witness: a zero-count observation with rating 4.5 was put in front of
\* an observation with rating 3.0, and the score is still 3.0
ZeroCountChangesNothingWitness ==
    /\ aggPc = "compared"
    /\ aggImpl = RatingAggregator
    /\ ratings = <<Observation("Amazon.com", 30, 1000)>>
    /\ ratingsPlus = <<Observation(NewPlatform, 45, 0),
                       Observation("Amazon.com", 30, 1000)>>
    /\ Len(aggregatedScorePlus.platformBreakdown) = 2
    /\ aggregatedScorePlus.overallScore = Frac(30, 10)
    /\ aggregatedScorePlus.totalReviewCount = 1000

\* C8 (as claimed): no observation with rating 0 or review count 0 is in
\* platformBreakdown, so none is counted or averaged in
DroppedBeforeAggregation ==
    Aggregated =>
        \A i \in 1..Len(aggregatedScore.platformBreakdown) :
            /\ aggregatedScore.platformBreakdown[i].rating > 0
            /\ aggregatedScore.platformBreakdown[i].reviewCount > 0

\* C9: what fetchPlatformRatings returns has exactly one entry for each
\* platform of the list, an observation of the list for that platform, and
\* none of the list's observations for the platform has more reviews
OnePerPlatformMaxCount ==
    (aggImpl = RatingAggregator /\ aggPc \in {"fetched", "aggregated", "compared"}) =>
        /\ \A i, j \in 1..Len(platformRatings) :
              platformRatings[i].platform = platformRatings[j].platform => i = j
        /\ {platformRatings[i].platform : i \in 1..Len(platformRatings)}
              = {ratings[k].platform : k \in 1..Len(ratings)}
        /\ \A i \in 1..Len(platformRatings) :
              /\ \E k \in 1..Len(ratings) :
                    platformRatings[i] = ToPlatformRating(ratings[k])
              /\ \A k \in 1..Len(ratings) :
                    ratings[k].platform = platformRatings[i].platform
                        => ratings[k].reviewCount <= platformRatings[i].reviewCount

\* C9 witness: observations with 1,000 and with 10 reviews for one platform,
\* in this order, gave one entry, the one with 1,000
OnePerPlatformMaxCountWitness ==
    /\ aggImpl = RatingAggregator
    /\ aggPc = "fetched"
    /\ ratings = <<Observation("Amazon.com", 45, 1000),
                   Observation("Amazon.com", 30, 10)>>
    /\ platformRatings =
          <<ToPlatformRating(Observation("Amazon.com", 45, 1000))>>

\* C10 (as claimed): confidenceScore is in [0, 0.95]
ConfidenceAtMost095 ==
    Aggregated =>
        /\ aggregatedScore.confidenceScore.num >= 0
        /\ 100 * aggregatedScore.confidenceScore.num
              <= 95 * aggregatedScore.confidenceScore.den

\* C11 (as claimed): an empty list of observations gives overallScore 0,
\* totalReviewCount 0, confidenceScore 0 and an empty platformBreakdown
EmptyGivesZeroScore ==
    (Aggregated /\ ratings = <<>>) =>
        aggregatedScore =
            [overallScore |-> Frac(0, 1), totalReviewCount |-> 0,
             confidenceScore |-> Frac(0, 1), platformBreakdown |-> <<>>]

-----------------------------------------------------------------------------
(* SpecBatch: one call of processInBatches(tasks, batchSize) over every    *)
(* task list of TaskLists; the tasks of a slice settle in any order.       *)

\* a task: the value its promise fulfils with, or that it rejects
Task(v, rej) == [value |-> v, rejects |-> rej]

\* the value task k fulfils with (all different, so that order is visible)
TaskValue(k) == 10 * k

TaskLists ==
    UNION {{[k \in 1..n |-> Task(TaskValue(k), r[k])] : r \in [1..n -> BOOLEAN]}
            : n \in 0..MaxTasks}

\* a variant in which a slice after the first starts one position early
SliceFirstOverlapping(i) == IF i = 0 THEN 1 ELSE i

\* the positions (from 1) of tasks.slice(i, i + batchSize)
SliceFirst(i) == i + 1
SliceLast(i, size, n) == Min(i + size, n)
Slice(i, size, n) == SliceFirst(i)..SliceLast(i, size, n)

\* a variant in which the awaited array holds the values in the order in
\* which the promises fulfilled
BatchResultsBySettling(lo, hi) ==
    LET settled == SelectSeq(settleOrder, LAMBDA k : k \in lo..hi)
    IN  [j \in 1..Len(settled) |-> tasks[settled[j]].value]

\* what await Promise.all(batch.map(task => task())) evaluates to: the
\* values by position in the slice
BatchResults(lo, hi) ==
    [j \in 1..(hi - lo + 1) |-> tasks[lo + j - 1].value]

\* a variant in which Promise.all resolves once any promise has fulfilled
BatchSettledAny(lo, hi) ==
    \E k \in lo..hi : taskState[k] = "fulfilled"

\* Promise.all resolves: every promise of the slice has fulfilled
BatchSettled(lo, hi) ==
    \A k \in lo..hi : taskState[k] = "fulfilled"

\* Promise.all rejects: some promise of the slice has rejected
BatchRejected(lo, hi) ==
    \E k \in lo..hi : taskState[k] = "rejected"

InitBatch ==
    /\ NormIdle
    /\ DetectIdle
    /\ AggIdle
    /\ ProbeIdle
    /\ PlatformIdle
    /\ TitleIdle
    /\ tasks \in TaskLists
    /\ batchSize \in 1..MaxBatchSize
    /\ batchIndex = 0
    /\ taskState = [k \in DOMAIN tasks |-> "pending"]
    /\ calls = [k \in DOMAIN tasks |-> 0]
    /\ settleOrder = <<>>
    /\ results = <<>>
    /\ chunksRun = 0
    /\ batchPc = "loop"

\* the loop test passes; batch.map(task => task()) invokes every task of
\* the slice, and the function suspends at the await
StartBatch ==
    /\ batchPc = "loop"
    /\ batchIndex < Len(tasks)
    /\ LET batch == Slice(batchIndex, batchSize, Len(tasks))
       IN  /\ taskState' = [k \in DOMAIN tasks |->
                              IF k \in batch THEN "running" ELSE taskState[k]]
           /\ calls' = [k \in DOMAIN tasks |->
                          IF k \in batch THEN calls[k] + 1 ELSE calls[k]]
    /\ chunksRun' = chunksRun + 1
    /\ batchPc' = "await"
    /\ UNCHANGED <<tasks, batchSize, batchIndex, settleOrder, results>>
    /\ UNCHANGED <<normVars, detectVars, aggVars, probeVars, platformVars, titleVars>>

\* the promise of one invoked task settles
TaskSettles ==
    \E k \in DOMAIN tasks :
        /\ taskState[k] = "running"
        /\ taskState' = [taskState EXCEPT
                           ![k] = IF tasks[k].rejects THEN "rejected"
                                                      ELSE "fulfilled"]
        /\ settleOrder' = Append(settleOrder, k)
        /\ UNCHANGED <<tasks, batchSize, batchIndex, calls, results,
                       chunksRun, batchPc>>
        /\ UNCHANGED <<normVars, detectVars, aggVars, probeVars, platformVars, titleVars>>

\* the await resumes with the values; results.push(...batchResults); i +=
\* batchSize
BatchResolves ==
    /\ batchPc = "await"
    /\ LET lo == SliceFirst(batchIndex)
           hi == SliceLast(batchIndex, batchSize, Len(tasks))
       IN  /\ BatchSettled(lo, hi)
           /\ results' = results \o BatchResults(lo, hi)
    /\ batchIndex' = batchIndex + batchSize
    /\ batchPc' = "loop"
    /\ UNCHANGED <<tasks, batchSize, taskState, calls, settleOrder, chunksRun>>
    /\ UNCHANGED <<normVars, detectVars, aggVars, probeVars, platformVars, titleVars>>

\* the await throws the rejection of Promise.all; nothing catches it, so
\* the promise of processInBatches rejects
BatchRejects ==
    /\ batchPc = "await"
    /\ BatchRejected(SliceFirst(batchIndex),
                     SliceLast(batchIndex, batchSize, Len(tasks)))
    /\ batchPc' = "rejected"
    /\ UNCHANGED <<tasks, batchSize, batchIndex, taskState, calls,
                   settleOrder, results, chunksRun>>
    /\ UNCHANGED <<normVars, detectVars, aggVars, probeVars, platformVars, titleVars>>

\* the loop test fails; return results
ReturnResults ==
    /\ batchPc = "loop"
    /\ batchIndex >= Len(tasks)
    /\ batchPc' = "returned"
    /\ UNCHANGED <<tasks, batchSize, batchIndex, taskState, calls,
                   settleOrder, results, chunksRun>>
    /\ UNCHANGED <<normVars, detectVars, aggVars, probeVars, platformVars, titleVars>>

NextBatch ==
    \/ StartBatch
    \/ TaskSettles
    \/ BatchResolves
    \/ BatchRejects
    \/ ReturnResults

SpecBatch == InitBatch /\ [][NextBatch]_vars

\* the chunk (from 0) a task position belongs to
ChunkOf(k) == (k - 1) \div batchSize

InFlight == {k \in DOMAIN tasks : taskState[k] = "running"}

\* C12: when processInBatches returns, result i is the value of input task i
\* and the output is as long as the input, whatever order the tasks settled in
ResultsInInputOrder ==
    batchPc = "returned" =>
        /\ Len(results) = Len(tasks)
        /\ \A k \in DOMAIN tasks : results[k] = tasks[k].value

\* 7 tasks with limit 3 returned although the tasks of the first slice
\* settled in the reverse of the input order
ResultsInInputOrderWitness ==
    /\ batchPc = "returned"
    /\ Len(tasks) = 7
    /\ batchSize = 3
    /\ SubSeq(settleOrder, 1, 3) = <<3, 2, 1>>

\* C13: no task of a later chunk has been started before every task of the
\* chunks before it has completed, and at most batchSize tasks are in flight
ChunkBarrier ==
    /\ \A k \in DOMAIN tasks : \A j \in DOMAIN tasks :
           (taskState[k] # "pending" /\ ChunkOf(j) < ChunkOf(k)) =>
               taskState[j] \in {"fulfilled", "rejected"}
    /\ \A k \in DOMAIN tasks : \A j \in DOMAIN tasks :
           (taskState[k] # "pending" /\ ChunkOf(j) = ChunkOf(k)) =>
               taskState[j] # "pending"
    /\ Cardinality(InFlight) <= batchSize

\* MAX_CONCURRENT_REQUESTS tasks of the second chunk are in flight while
\* the third chunk waits
ChunkBarrierWitness ==
    /\ batchSize = 3
    /\ Len(tasks) = 7
    /\ InFlight = {4, 5, 6}
    /\ taskState[7] = "pending"

\* C14 (as claimed): when the call has ended, every task has been run and
\* the value of every task that did not reject has been delivered
RejectionDoesNotAbort ==
    batchPc \in {"returned", "rejected"} =>
        /\ batchPc = "returned"
        /\ \A k \in DOMAIN tasks : calls[k] >= 1
        /\ \A k \in DOMAIN tasks :
               ~tasks[k].rejects => \E j \in DOMAIN results :
                                        results[j] = tasks[k].value

-----------------------------------------------------------------------------
(* SpecProbe: getAggregatedScore of the rating aggregator with the probing *)
(* of fetchPlatformRatings, for every way the web search, the source page  *)
(* and each platform probe can fail or succeed                              *)

MAX_CONCURRENT_REQUESTS == 3

\* a task result that is null
Null == [null |-> TRUE]

\* the platforms probed
PlatformsToSearch ==
    <<"Amazon.com", "BestBuy.com", "Walmart.com", "Target.com", "Newegg.com">>

\* what one probe can come to: the request fails, the request times out,
\* the page has neither a product link nor a rating, a rating is found
ProbeOutcomes == {"network_error", "timeout", "unparsable", "ok"}

\* the rating a probe that succeeds finds for a platform
ProbeObservation(platform) ==
    ObservationWith(platform, BulkRating, BulkCount, FALSE)

\* the rating found on the source page
SourceObservation(platform) == Observation(platform, 45, 1000)

\* the ratings the web search returns when it returns any
WebSearchRatings ==
    <<Observation("Amazon.com", 45, 1000), Observation("BestBuy.com", 30, 10)>>

\* a variant in which a probe that fails returns an empty rating for its
\* platform
searchAndExtractPlaceholder(platform, outcome) ==
    IF outcome = "ok"
    THEN ProbeObservation(platform)
    ELSE ObservationWith(platform, 0, 0, FALSE)

\* searchAndExtractFromPlatform: every error is caught and gives null, and
\* so does a page without a rating
searchAndExtractFromPlatform(platform, outcome) ==
    IF outcome = "ok" THEN ProbeObservation(platform) ELSE Null

\* extractRatingFromProductPage(productUrl) and the test on what it returns
extractRatingFromProductPage(platform, outcome) ==
    IF outcome = "ok" THEN <<SourceObservation(platform)>> ELSE <<>>

\* platformsToSearch with the source platform filtered out
ProbedPlatforms(source) ==
    SelectSeq(PlatformsToSearch, LAMBDA p : p # source)

InitProbe ==
    /\ NormIdle
    /\ DetectIdle
    /\ PlatformIdle
    /\ TitleIdle
    /\ aggImpl = RatingAggregator
    /\ ratings = <<>>
    /\ platformRatings = <<>>
    /\ aggregatedScore = Undefined
    /\ ratingsPlus = <<>>
    /\ aggregatedScorePlus = Undefined
    /\ aggPc = "probing"
    /\ tasks = <<>>
    /\ batchSize = MAX_CONCURRENT_REQUESTS
    /\ batchIndex = 0
    /\ taskState = <<>>
    /\ calls = <<>>
    /\ settleOrder = <<>>
    /\ results = <<>>
    /\ chunksRun = 0
    /\ batchPc = "idle"
    /\ sourcePlatform \in {"Amazon.com", "Acme.com"}
    /\ sourcePage \in {"network_error", "no_rating", "ok"}
    /\ openai \in {"throws", "empty", "results"}
    /\ probeOutcome \in [{PlatformsToSearch[i] : i \in DOMAIN PlatformsToSearch}
                            -> ProbeOutcomes]
    \* the source platform is not probed: its outcome is left at one value
    /\ \A p \in DOMAIN probeOutcome :
           p = sourcePlatform => probeOutcome[p] = "ok"
    /\ probePc = "openai"

\* the web search: its results become the ratings; an error or an empty
\* answer leaves ratings empty
OpenaiSearch ==
    /\ probePc = "openai"
    /\ ratings' = IF openai = "results" THEN WebSearchRatings ELSE <<>>
    /\ probePc' = "source"
    /\ UNCHANGED <<aggImpl, platformRatings, aggregatedScore, ratingsPlus,
                   aggregatedScorePlus, aggPc>>
    /\ UNCHANGED <<sourcePlatform, sourcePage, openai, probeOutcome>>
    /\ UNCHANGED <<normVars, detectVars, batchVars, platformVars, titleVars>>

\* ratings.length > 0: neither the source page nor the platforms are probed
SkipProbing ==
    /\ probePc = "source"
    /\ Len(ratings) > 0
    /\ probePc' = "collected"
    /\ aggPc' = "start"
    /\ UNCHANGED <<aggImpl, ratings, platformRatings, aggregatedScore,
                   ratingsPlus, aggregatedScorePlus>>
    /\ UNCHANGED <<sourcePlatform, sourcePage, openai, probeOutcome>>
    /\ UNCHANGED <<normVars, detectVars, batchVars, platformVars, titleVars>>

\* ratings.length === 0: the rating of the source page is pushed if there is
\* one, and processInBatches is called with one task per other platform
ExtractSourceRating ==
    /\ probePc = "source"
    /\ Len(ratings) = 0
    /\ ratings' = extractRatingFromProductPage(sourcePlatform, sourcePage)
    /\ LET searched == ProbedPlatforms(sourcePlatform)
       IN  /\ tasks' = [k \in 1..Len(searched) |->
                          Task(searchAndExtractFromPlatform(
                                   searched[k], probeOutcome[searched[k]]),
                               FALSE)]
           /\ taskState' = [k \in 1..Len(searched) |-> "pending"]
           /\ calls' = [k \in 1..Len(searched) |-> 0]
    /\ batchSize' = MAX_CONCURRENT_REQUESTS
    /\ batchIndex' = 0
    /\ batchPc' = "loop"
    /\ probePc' = "probing"
    /\ UNCHANGED <<settleOrder, results, chunksRun>>
    /\ UNCHANGED <<aggImpl, platformRatings, aggregatedScore, ratingsPlus,
                   aggregatedScorePlus, aggPc>>
    /\ UNCHANGED <<sourcePlatform, sourcePage, openai, probeOutcome>>
    /\ UNCHANGED <<normVars, detectVars, platformVars, titleVars>>

\* the results that are not null are appended to ratings
CollectRatings ==
    /\ probePc = "probing"
    /\ batchPc = "returned"
    /\ ratings' = ratings \o SelectSeq(results, LAMBDA r : r # Null)
    /\ probePc' = "collected"
    /\ aggPc' = "start"
    /\ UNCHANGED <<aggImpl, platformRatings, aggregatedScore, ratingsPlus,
                   aggregatedScorePlus>>
    /\ UNCHANGED <<sourcePlatform, sourcePage, openai, probeOutcome>>
    /\ UNCHANGED <<normVars, detectVars, batchVars, platformVars, titleVars>>

\* no probe task rejects, so Promise.all never does
NextProbe ==
    \/ OpenaiSearch
    \/ SkipProbing
    \/ ExtractSourceRating
    \/ StartBatch
    \/ TaskSettles
    \/ BatchResolves
    \/ ReturnResults
    \/ CollectRatings
    \/ FetchPlatformRatings
    \/ GetAggregatedScore

SpecProbe == InitProbe /\ [][NextProbe]_vars

\* the platforms named by the ratings returned
PlatformsOf(rs) == {rs[i].platform : i \in 1..Len(rs)}

\* the probing took place and getAggregatedScore has resolved
Probed == probePc = "collected" /\ openai # "results" /\ aggPc = "aggregated"

\* C15: for every set of probes that fail, a failed probe contributes no
\* observation, the observation of every probe that succeeds and of the
\* source page is in the result, and getAggregatedScore resolves to an
\* AggregatedScore over these
FailedProbesContributeNothing ==
    Probed =>
        LET searched == ProbedPlatforms(sourcePlatform)
            found == {searched[k] : k \in {j \in 1..Len(searched) :
                          probeOutcome[searched[j]] = "ok"}}
            kept == found \cup (IF sourcePage = "ok" THEN {sourcePlatform}
                                                     ELSE {})
        IN  /\ PlatformsOf(platformRatings) = kept
            /\ \A p \in found :
                   \E i \in 1..Len(platformRatings) :
                       platformRatings[i] = ToPlatformRating(ProbeObservation(p))
            /\ sourcePage = "ok" =>
                   \E i \in 1..Len(platformRatings) :
                       platformRatings[i] =
                           ToPlatformRating(SourceObservation(sourcePlatform))
            /\ DOMAIN aggregatedScore =
                   {"overallScore", "totalReviewCount", "confidenceScore",
                    "platformBreakdown"}
            /\ aggregatedScore.platformBreakdown = platformRatings

\* the probes of BestBuy.com and Target.com failed in different ways, those
\* of Walmart.com and Newegg.com succeeded, and the source page gave a rating
FailedProbesContributeNothingWitness ==
    /\ Probed
    /\ sourcePlatform = "Amazon.com"
    /\ sourcePage = "ok"
    /\ probeOutcome["BestBuy.com"] = "timeout"
    /\ probeOutcome["Target.com"] = "unparsable"
    /\ probeOutcome["Walmart.com"] = "ok"
    /\ probeOutcome["Newegg.com"] = "ok"
    /\ PlatformsOf(platformRatings) = {"Amazon.com", "Walmart.com", "Newegg.com"}

-----------------------------------------------------------------------------
(* SpecPlatform: the platform or source name computed from a URL by        *)
(* getPlatformFromUrl (rating aggregator), detectSourceName (content       *)
(* script, from window.location) and the fallback of extractProductFromUrl *)
(* (product service), over hostnames of up to MaxLabels labels              *)

LowerAlphabet ==
    <<"a", "b", "c", "d", "e", "f", "g", "h", "i", "j", "k", "l", "m",
      "n", "o", "p", "q", "r", "s", "t", "u", "v", "w", "x", "y", "z">>

UpperAlphabet ==
    <<"A", "B", "C", "D", "E", "F", "G", "H", "I", "J", "K", "L", "M",
      "N", "O", "P", "Q", "R", "S", "T", "U", "V", "W", "X", "Y", "Z">>

\* String.prototype.toUpperCase / toLowerCase
ToUpperCase(s) ==
    [i \in 1..Len(s) |->
        IF \E k \in 1..26 : LowerAlphabet[k] = s[i]
        THEN UpperAlphabet[CHOOSE k \in 1..26 : LowerAlphabet[k] = s[i]]
        ELSE s[i]]

ToLowerCase(s) ==
    [i \in 1..Len(s) |->
        IF \E k \in 1..26 : UpperAlphabet[k] = s[i]
        THEN LowerAlphabet[CHOOSE k \in 1..26 : UpperAlphabet[k] = s[i]]
        ELSE s[i]]

\* String.prototype.split('.')
SplitDots(s) ==
    LET dots == {i \in 1..Len(s) : s[i] = "."}
        n == Cardinality(dots)
        Dot(j) == IF j = 0 THEN 0
                  ELSE IF j = n + 1 THEN Len(s) + 1
                  ELSE CHOOSE i \in dots :
                           Cardinality({d \in dots : d < i}) = j - 1
    IN  [j \in 1..(n + 1) |-> SubSeq(s, Dot(j - 1) + 1, Dot(j) - 1)]

TxtWww      == <<"w", "w", "w">>
TxtDotCom   == <<".", "c", "o", "m">>
TxtOther    == <<"O", "t", "h", "e", "r">>
TxtUnknownSource ==
    <<"U", "n", "k", "n", "o", "w", "n", " ", "S", "o", "u", "r", "c", "e">>

\* s.charAt(0).toUpperCase() + s.slice(1) + '.com'
CapitalizedDotCom(s) ==
    IF s = EmptyStr THEN TxtDotCom
    ELSE ToUpperCase(SubSeq(s, 1, 1)) \o SubSeq(s, 2, Len(s)) \o TxtDotCom

\* the hostname.includes tests of getPlatformFromUrl, in order
KnownPlatforms ==
    <<[key |-> <<"a", "m", "a", "z", "o", "n">>,
       name |-> <<"A", "m", "a", "z", "o", "n", ".", "c", "o", "m">>],
      [key |-> <<"b", "e", "s", "t", "b", "u", "y">>,
       name |-> <<"B", "e", "s", "t", "B", "u", "y", ".", "c", "o", "m">>],
      [key |-> <<"w", "a", "l", "m", "a", "r", "t">>,
       name |-> <<"W", "a", "l", "m", "a", "r", "t", ".", "c", "o", "m">>],
      [key |-> <<"t", "a", "r", "g", "e", "t">>,
       name |-> <<"T", "a", "r", "g", "e", "t", ".", "c", "o", "m">>],
      [key |-> <<"n", "e", "w", "e", "g", "g">>,
       name |-> <<"N", "e", "w", "e", "g", "g", ".", "c", "o", "m">>],
      [key |-> <<"r", "e", "d", "d", "i", "t">>,
       name |-> <<"R", "e", "d", "d", "i", "t">>],
      [key |-> <<"y", "o", "u", "t", "u", "b", "e">>,
       name |-> <<"Y", "o", "u", "T", "u", "b", "e">>]>>

\* what a call comes to: a name returned, or an exception thrown
Returns(name) == [called |-> TRUE, throws |-> FALSE, name |-> name]
Throws == [called |-> TRUE, throws |-> TRUE, name |-> <<>>]

\* domainParts after the shift of a leading 'www'
DomainParts(hostname) ==
    LET parts == SplitDots(hostname)
    IN  IF parts[1] = TxtWww THEN Tail(parts) ELSE parts

\* a variant that lets the last of the tests that succeed decide
getPlatformFromUrlLastMatch(url) ==
    IF ~url.parses THEN Returns(TxtOther)
    ELSE
        LET hostname == ToLowerCase(url.hostname)
            hits == {k \in 1..Len(KnownPlatforms) :
                        Includes(hostname, KnownPlatforms[k].key)}
            domainParts == DomainParts(hostname)
        IN  IF hits # {}
            THEN Returns(KnownPlatforms[
                     CHOOSE k \in hits : \A j \in hits : j <= k].name)
            ELSE IF Len(domainParts) > 0
                 THEN Returns(CapitalizedDotCom(domainParts[1]))
                 ELSE Returns(TxtOther)

\* RatingAggregatorService.getPlatformFromUrl: new URL throws on a string
\* that does not parse, and the catch returns 'Other'
getPlatformFromUrl(url) ==
    IF ~url.parses THEN Returns(TxtOther)
    ELSE
        LET hostname == ToLowerCase(url.hostname)
            hits == {k \in 1..Len(KnownPlatforms) :
                        Includes(hostname, KnownPlatforms[k].key)}
            domainParts == DomainParts(hostname)
        IN  IF hits # {} THEN Returns(KnownPlatforms[Least(hits)].name)
            ELSE IF Len(domainParts) > 0
                 THEN Returns(CapitalizedDotCom(domainParts[1]))
                 ELSE Returns(TxtOther)

\* detectSourceName of the content script: domainParts[0] is undefined when
\* the shift left nothing, and undefined.charAt throws
detectSourceName(url) ==
    LET domainParts == DomainParts(url.hostname)
    IN  IF Len(domainParts) = 0 THEN Throws
        ELSE Returns(CapitalizedDotCom(domainParts[1]))

\* hostname.replace(/^www\./, '')
StripWwwDot(hostname) ==
    IF StartsWith(hostname, TxtWww \o <<".">>)
    THEN SubSeq(hostname, 5, Len(hostname))
    ELSE hostname

\* the source of the fallback in the catch of extractProductFromUrl
fallbackSourceName(url) ==
    IF ~url.parses THEN Returns(TxtUnknownSource)
    ELSE Returns(CapitalizedDotCom(SplitDots(StripWwwDot(url.hostname))[1]))

TxtAmazon == <<"a", "m", "a", "z", "o", "n">>
TxtAcme   == <<"a", "c", "m", "e">>
TxtCom    == <<"c", "o", "m">>

TxtTarget == <<"t", "a", "r", "g", "e", "t">>

LabelPool == {TxtWww, TxtAmazon, TxtTarget, TxtAcme, TxtCom}

\* the labels joined with dots
RECURSIVE JoinDots(_)
JoinDots(labels) ==
    IF Len(labels) = 1 THEN labels[1]
    ELSE labels[1] \o <<".">> \o JoinDots(Tail(labels))

\* the empty hostname and every hostname of 1..MaxLabels labels of the pool
Hostnames ==
    {EmptyStr} \cup
    {JoinDots(ls) : ls \in UNION {[1..n -> LabelPool] : n \in 1..MaxLabels}}

\* a URL: whether new URL(url) parses it, and the hostname if it does
Urls ==
    {[parses |-> TRUE, hostname |-> h] : h \in Hostnames}
    \cup {[parses |-> FALSE, hostname |-> EmptyStr]}

PlatformImpls == {"getPlatformFromUrl", "detectSourceName", "extractProductFromUrl"}

InitPlatform ==
    /\ NormIdle
    /\ DetectIdle
    /\ AggIdle
    /\ BatchIdle
    /\ ProbeIdle
    /\ TitleIdle
    /\ platformImpl \in PlatformImpls
    /\ platformUrl \in Urls
    \* window.location always has a hostname
    /\ platformImpl = "detectSourceName" => platformUrl.parses
    /\ platformResult = [called |-> FALSE]

GetPlatformFromUrl ==
    /\ platformImpl = "getPlatformFromUrl"
    /\ ~platformResult.called
    /\ platformResult' = getPlatformFromUrl(platformUrl)
    /\ UNCHANGED <<platformImpl, platformUrl>>
    /\ UNCHANGED <<normVars, detectVars, aggVars, batchVars, probeVars,
                   titleVars>>

DetectSourceName ==
    /\ platformImpl = "detectSourceName"
    /\ ~platformResult.called
    /\ platformResult' = detectSourceName(platformUrl)
    /\ UNCHANGED <<platformImpl, platformUrl>>
    /\ UNCHANGED <<normVars, detectVars, aggVars, batchVars, probeVars,
                   titleVars>>

FallbackSourceName ==
    /\ platformImpl = "extractProductFromUrl"
    /\ ~platformResult.called
    /\ platformResult' = fallbackSourceName(platformUrl)
    /\ UNCHANGED <<platformImpl, platformUrl>>
    /\ UNCHANGED <<normVars, detectVars, aggVars, batchVars, probeVars,
                   titleVars>>

NextPlatform ==
    \/ GetPlatformFromUrl
    \/ DetectSourceName
    \/ FallbackSourceName

SpecPlatform == InitPlatform /\ [][NextPlatform]_vars

\* C16 (as claimed): the identification never throws, and an unparsable URL
\* gives the sentinel of the function called
PlatformNeverThrows ==
    platformResult.called =>
        /\ ~platformResult.throws
        /\ ~platformUrl.parses =>
               platformResult.name \in {TxtOther, TxtUnknownSource}

-----------------------------------------------------------------------------
(* Further properties of the cascade (Spec) *)

IsValidBlock(b) == b.valid

\* C17: a block that is not valid JSON is skipped: structured data yields
\* what it yields for the page without that block, the cascade goes on to
\* the meta tags when no block yields a candidate, and a page with one
\* malformed block and one Product block, in either order, gives the
\* Product name
MalformedBlockSkipped ==
    (result.returned /\ trace # <<>>
        /\ \E i \in 1..Len(page.blocks) : ~page.blocks[i].valid) =>
        /\ trace[1].strategy = "structured_data"
        /\ trace[1].title =
              ExtractStructuredData(impl, SelectSeq(page.blocks, IsValidBlock))
        /\ trace[1].title = EmptyStr =>
              /\ Len(trace) >= 2
              /\ trace[2].strategy = "meta_tags"
        /\ page.blocks \in {<<BlkMalformed, BlkProduct>>,
                            <<BlkProduct, BlkMalformed>>} =>
              /\ result.present
              /\ result.title = Finished(impl, TxtSdName)
              /\ result.title = TxtSdName

\* the malformed block came first and the Product name was returned
MalformedBlockSkippedWitness ==
    /\ result.returned
    /\ page.blocks = <<BlkMalformed, BlkProduct>>
    /\ trace # <<>>
    /\ trace[1].title = TxtSdName
    /\ result.present
    /\ result.title = TxtSdName

TxtSonyProduct ==
    <<"S", "o", "n", "y", " ", "W", "H", "-", "1", "0", "0", "0", "X", "M", "4", " ", "W", "i", "r", "e", "l", "e", "s", "s", " ", "N", "o", "i", "s", "e", " ", "C", "a", "n", "c", "e", "l", "i", "n", "g", " ", "H", "e", "a", "d", "p", "h", "o", "n", "e", "s">>

\* C19: page-title extraction over "Sony WH-1000XM4 Wireless Noise Canceling
\* Headphones - Amazon.com" returns exactly "Sony WH-1000XM4 Wireless Noise
\* Canceling Headphones": the hyphens of the model number do not split it
SonyPageTitle ==
    \A i \in 1..Len(trace) :
        (trace[i].strategy = "page_title" /\ page.title = TxtTitleSony) =>
            trace[i].title = TxtSonyProduct

\* the content script returned the Sony title from the page title
SonyPageTitleWitness ==
    /\ impl = ContentScript
    /\ page.title = TxtTitleSony
    /\ result.returned
    /\ result.present
    /\ result.method = "page_title"
    /\ result.title = TxtSonyProduct

-----------------------------------------------------------------------------
(* Further properties of the aggregation (SpecAgg) *)

ObsA == Observation("Amazon.com", 45, 1000)
ObsB == Observation("Acme Store", 30, 10)

\* C18: for platform A (rating 4.5, 1000 reviews, trust weight 9) and
\* platform B (rating 3.0, 10 reviews, trust weight 4) the overallScore is
\* the mean of the two ratings weighted by trustWeight * min(log10(reviewCount
\* + 1), 5), rounded to one decimal place, which is 4.3 and strictly closer
\* to 4.5 than to 3.0
WeightedMeanExample ==
    (Aggregated /\ aggImpl = RatingAggregator
        /\ ratings \in {<<ObsA, ObsB>>, <<ObsB, ObsA>>}) =>
        LET a == ToPlatformRating(ObsA)
            b == ToPlatformRating(ObsB)
            score == aggregatedScore.overallScore
        IN  /\ a.weight = 9
            /\ b.weight = 4
            /\ score = Frac(RoundDiv(a.rating * EffectiveWeight(a)
                                        + b.rating * EffectiveWeight(b),
                                     EffectiveWeight(a) + EffectiveWeight(b)),
                            10)
            /\ score = Frac(43, 10)
            \* |score - 4.5| < |score - 3.0|
            /\ 2 * 10 * score.num > (45 + 30) * score.den

\* the rating aggregator has aggregated A followed by B to 4.3
WeightedMeanExampleWitness ==
    /\ Aggregated
    /\ aggImpl = RatingAggregator
    /\ ratings = <<ObsA, ObsB>>
    /\ Len(platformRatings) = 2
    /\ aggregatedScore.overallScore = Frac(43, 10)

\* the platform name with its letters in lower case
CaseNormalized(platform) ==
    CASE platform = "Amazon.com"     -> "amazon.com"
      [] platform = "Acme Store"     -> "acme store"
      [] platform = "BestBuy.com"    -> "bestbuy.com"
      [] platform = "Walmart.com"    -> "walmart.com"
      [] platform = "Target.com"     -> "target.com"
      [] platform = "Newegg.com"     -> "newegg.com"
      [] platform = "Reddit"         -> "reddit"
      [] platform = "YouTube"        -> "youtube"
      [] platform = "Expert Reviews" -> "expert reviews"
      [] OTHER                       -> platform

\* C20 (as claimed): no two entries of what fetchPlatformRatings returns
\* have platform names that are equal up to letter case
CaseNormalizedDedup ==
    (aggImpl = RatingAggregator /\ aggPc # "start") =>
        \A i \in 1..Len(platformRatings) : \A j \in 1..Len(platformRatings) :
            CaseNormalized(platformRatings[i].platform)
                = CaseNormalized(platformRatings[j].platform) => i = j

ValidObservation(o) == o.rating > 0 /\ o.reviewCount > 0

\* C22 (as claimed): the entry surviving for a platform is the observation
\* with the most reviews among the platform's observations with rating > 0
\* and reviewCount > 0, so every platform with such an observation is
\* represented by one
FilterBeforeDedup ==
    (aggImpl = RatingAggregator /\ Aggregated) =>
        \A k \in 1..Len(ratings) :
            ValidObservation(ratings[k]) =>
                \E i \in 1..Len(aggregatedScore.platformBreakdown) :
                    LET e == aggregatedScore.platformBreakdown[i] IN
                    /\ e.platform = ratings[k].platform
                    /\ ValidObservation(e)
                    /\ e.reviewCount >= ratings[k].reviewCount

-----------------------------------------------------------------------------
(* Further properties of the strategies (Spec) *)

HasMetaSeparator(s) == Includes(s, SepDash) \/ Includes(s, SepPipe)

\* the text before the first ' - ' or ' | ' of s (s has one)
BeforeFirstSeparator(s) ==
    SubSeq(s, 1, Least({i \in 1..Len(s) :
                           OccursAt(s, SepDash, i) \/ OccursAt(s, SepPipe, i)}) - 1)

\* C23 (as claimed): when the meta tag returned on has a ' - ' or ' | ', the
\* title returned is the text before the first separator and is longer than
\* 5 characters
MetaSeparatorFirstSegment ==
    \A i \in 1..Len(trace) :
        (trace[i].strategy = "meta_tags" /\ trace[i].idx # 0
            /\ HasMetaSeparator(page.meta[trace[i].idx])) =>
            /\ trace[i].title = Trim(BeforeFirstSeparator(page.meta[trace[i].idx]))
            /\ Len(trace[i].title) > MinTitleLen

\* the selector loop over the elements present stops at the first element
\* whose trimmed text is longer than 5 characters and at most (inclusive) or
\* less than (not inclusive) 250 characters long, and at no other
SelectorLoopStopsAtFirst(inclusive) ==
    \A i \in 1..Len(trace) :
        trace[i].strategy = "common_selectors" =>
            LET sel == page.sel
                fits == {k \in 1..Len(sel) :
                            /\ Len(Trim(sel[k])) > MinTitleLen
                            /\ IF inclusive
                               THEN Len(Trim(sel[k])) <= MaxSelectorLen
                               ELSE Len(Trim(sel[k])) < MaxSelectorLen}
            IN  /\ fits # {} =>
                      /\ trace[i].idx = Least(fits)
                      /\ trace[i].title = Trim(sel[Least(fits)])
                /\ fits = {} => trace[i].idx \notin 1..Len(sel)

\* C24 (as claimed): the selector loop accepts the first element whose
\* trimmed text length L satisfies 5 < L <= 250
SelectorFirstUpTo250 == SelectorLoopStopsAtFirst(TRUE)

\* C24 (amended): the selector loop accepts the first element whose trimmed
\* text length L satisfies 5 < L < 250; a text too short or of 250 or more
\* characters is skipped in favour of the next selector
SelectorFirstBelow250 == SelectorLoopStopsAtFirst(FALSE)

\* the first element has exactly 250 characters and the loop returned the
\* second
SelectorFirstBelow250Witness ==
    /\ Len(trace) >= 3
    /\ trace[3].strategy = "common_selectors"
    /\ page.sel = <<Rep("y", MaxSelectorLen), TxtSelOk>>
    /\ trace[3].idx = 2
    /\ trace[3].title = TxtSelOk

-----------------------------------------------------------------------------
(* SpecTitle: the title taken from the document title, step by step, by    *)
(* extractFromPageTitle (content script), Method 5 of extractProductFromUrl *)
(* (product service) and Strategy 4 of detectProductTitle (content script) *)

\* one round of the separator loop of detectProductTitle, which has no break
SplitOn(s, separator) ==
    IF Includes(s, separator)
    THEN Trim(SubSeq(s, 1, IndexOf(s, separator) - 1))
    ELSE s

\* the separator loop of detectProductTitle over SiteSeparators[k..]
RECURSIVE SplitOnEverySeparatorFrom(_, _)
SplitOnEverySeparatorFrom(s, k) ==
    IF k > Len(SiteSeparators) THEN s
    ELSE SplitOnEverySeparatorFrom(SplitOn(s, SiteSeparators[k]), k + 1)

TitleImpls == {"extractFromPageTitle", "extractProductFromUrl", "detectProductTitle"}

TxtA == <<"A">>
TxtB == <<"B">>
TxtProductWord == <<"A", "c", "m", "e", " ", "W", "a", "t", "c", "h">>

TitleTokens == {TxtA, TxtB, SepDash, SepPipe}

\* titles put together from words and separators
SeparatorTitles == {Concat(ts) : ts \in SeqUpTo(TitleTokens, MaxTitleTokens)}

NamePool ==
    {SiteSuffixes[1], SiteSuffixes[2], SiteSuffixes[5], SiteSuffixes[13]}

\* the names, each followed by a space
RECURSIVE NamesThenSpace(_)
NamesThenSpace(ns) ==
    IF ns = <<>> THEN <<>> ELSE Head(ns) \o <<" ">> \o NamesThenSpace(Tail(ns))

\* the names, each preceded by a space
RECURSIVE SpaceThenNames(_)
SpaceThenNames(ns) ==
    IF ns = <<>> THEN <<>> ELSE <<" ">> \o Head(ns) \o SpaceThenNames(Tail(ns))

\* a product name with up to MaxNames retailer names before or after it
RetailerTitles ==
    {NamesThenSpace(ns) \o TxtProductWord : ns \in SeqUpTo(NamePool, MaxNames)}
    \cup
    {TxtProductWord \o SpaceThenNames(ns) : ns \in SeqUpTo(NamePool, MaxNames)}

DocTitles == SeparatorTitles \cup RetailerTitles \cup TitlePool

TitleStep(step, before, after) ==
    [step |-> step, before |-> before, after |-> after]

InitTitle ==
    /\ NormIdle
    /\ DetectIdle
    /\ AggIdle
    /\ BatchIdle
    /\ ProbeIdle
    /\ PlatformIdle
    /\ titleImpl \in TitleImpls
    /\ docTitle \in DocTitles
    /\ cleanTitle = EmptyStr
    /\ titleLog = <<>>
    /\ titleReturned = EmptyStr
    /\ titlePc = "start"

\* the test on the title before any cleaning: a missing or too short title
\* ends the function (the server answers 'Unknown Product')
TitleStart ==
    /\ titlePc = "start"
    /\ LET t == IF titleImpl = "extractFromPageTitle" THEN docTitle
                ELSE Trim(docTitle)
           tooShort == IF titleImpl = "detectProductTitle"
                       THEN docTitle = EmptyStr
                       ELSE t = EmptyStr \/ PageTitleTooShort(t)
       IN  IF tooShort
           THEN /\ titleReturned' = IF titleImpl = "extractProductFromUrl"
                                    THEN UnknownProduct ELSE EmptyStr
                /\ titlePc' = "done"
                /\ UNCHANGED cleanTitle
           ELSE /\ cleanTitle' = t
                /\ titlePc' = "separators"
                /\ UNCHANGED titleReturned
    /\ UNCHANGED <<titleImpl, docTitle, titleLog>>
    /\ UNCHANGED <<normVars, detectVars, aggVars, batchVars, probeVars,
                   platformVars>>

\* the loop over siteSeparators
TitleSeparators ==
    /\ titlePc = "separators"
    /\ cleanTitle' = IF titleImpl = "detectProductTitle"
                     THEN SplitOnEverySeparatorFrom(cleanTitle, 1)
                     ELSE SplitOnSeparator(cleanTitle)
    /\ titleLog' = Append(titleLog,
                          TitleStep("separators", cleanTitle, cleanTitle'))
    /\ titlePc' = IF titleImpl = "detectProductTitle" THEN "return"
                  ELSE "suffixes"
    /\ UNCHANGED <<titleImpl, docTitle, titleReturned>>
    /\ UNCHANGED <<normVars, detectVars, aggVars, batchVars, probeVars,
                   platformVars>>

\* the loop over siteSuffixes
TitleSuffixes ==
    /\ titlePc = "suffixes"
    /\ cleanTitle' = StripSuffixesFrom(cleanTitle, 1)
    /\ titleLog' = Append(titleLog,
                          TitleStep("suffixes", cleanTitle, cleanTitle'))
    /\ titlePc' = "pricing"
    /\ UNCHANGED <<titleImpl, docTitle, titleReturned>>
    /\ UNCHANGED <<normVars, detectVars, aggVars, batchVars, probeVars,
                   platformVars>>

\* the two replace calls on pricing patterns
TitlePricing ==
    /\ titlePc = "pricing"
    /\ cleanTitle' = Trim(StripFirstDiscount(Trim(StripFirstPrice(cleanTitle))))
    /\ titleLog' = Append(titleLog,
                          TitleStep("pricing", cleanTitle, cleanTitle'))
    /\ titlePc' = "return"
    /\ UNCHANGED <<titleImpl, docTitle, titleReturned>>
    /\ UNCHANGED <<normVars, detectVars, aggVars, batchVars, probeVars,
                   platformVars>>

\* the final length test and the return; detectProductTitle returns the
\* title as it is
TitleReturn ==
    /\ titlePc = "return"
    /\ titleReturned' = IF titleImpl = "detectProductTitle" THEN cleanTitle
                        ELSE IF PageTitleAccepts(cleanTitle) THEN cleanTitle
                        ELSE EmptyStr
    /\ titlePc' = "done"
    /\ UNCHANGED <<titleImpl, docTitle, cleanTitle, titleLog>>
    /\ UNCHANGED <<normVars, detectVars, aggVars, batchVars, probeVars,
                   platformVars>>

NextTitle ==
    \/ TitleStart
    \/ TitleSeparators
    \/ TitleSuffixes
    \/ TitlePricing
    \/ TitleReturn

SpecTitle == InitTitle /\ [][NextTitle]_vars

\* the listed separators that occur in s
SeparatorsIn(s) == {k \in 1..Len(SiteSeparators) : Includes(s, SiteSeparators[k])}

\* C25 (as claimed): the separator step splits on one separator only, the
\* first of the list that occurs in the title, and keeps the text before
\* its first occurrence; no further separator is applied
SplitsOnOneSeparator ==
    \A i \in 1..Len(titleLog) :
        titleLog[i].step = "separators" =>
            LET s == titleLog[i].before
                k == Least(SeparatorsIn(s))
            IN  titleLog[i].after =
                    IF SeparatorsIn(s) = {} THEN s
                    ELSE Trim(SubSeq(s, 1, IndexOf(s, SiteSeparators[k]) - 1))

\* C26 (as claimed): after the suffix step the title neither starts nor ends
\* with an entry of the retailer-name list
NoRetailerNameLeft ==
    \A i \in 1..Len(titleLog) :
        titleLog[i].step = "suffixes" =>
            \A k \in 1..Len(SiteSuffixes) :
                /\ ~StartsWith(titleLog[i].after, SiteSuffixes[k])
                /\ ~EndsWith(titleLog[i].after, SiteSuffixes[k])

\* the retailer tests that succeed on the host
RetailersIn(host) ==
    {k \in 1..Len(KnownPlatforms) : Includes(host, KnownPlatforms[k].key)}

\* the labels of the host without a leading 'www' label
LabelsAfterWww(host) ==
    LET labels == SplitDots(host)
    IN  IF Head(labels) = TxtWww THEN Tail(labels) ELSE labels

\* C27: getPlatformFromUrl returns the name of the first retailer of the
\* order amazon, bestbuy, walmart, target, newegg, reddit, youtube whose
\* substring occurs in the host, whatever other retailer occurs there too;
\* when none occurs and a label is left after a leading 'www', it returns
\* that label with its first letter capitalized and '.com' appended
PlatformPriority ==
    (platformImpl = "getPlatformFromUrl" /\ platformResult.called
        /\ platformUrl.parses) =>
        LET host == ToLowerCase(platformUrl.hostname)
        IN  /\ ~platformResult.throws
            /\ \A k \in RetailersIn(host) :
                   (\A j \in RetailersIn(host) : k <= j) =>
                       platformResult.name = KnownPlatforms[k].name
            /\ (RetailersIn(host) = {} /\ LabelsAfterWww(host) # <<>>) =>
                   LET label == Head(LabelsAfterWww(host))
                   IN  platformResult.name =
                           (IF label = EmptyStr THEN EmptyStr
                            ELSE ToUpperCase(<<Head(label)>>) \o Tail(label))
                           \o TxtDotCom

\* a host that names target before amazon has been identified, and so has a
\* host of an unknown retailer behind a 'www' label
PlatformPriorityWitness ==
    /\ platformImpl = "getPlatformFromUrl"
    /\ platformResult.called
    /\ platformUrl.parses
    /\ \/ /\ platformUrl.hostname = JoinDots(<<TxtTarget, TxtAmazon, TxtCom>>)
          /\ platformResult.name = KnownPlatforms[1].name
       \/ /\ platformUrl.hostname = JoinDots(<<TxtWww, TxtAcme, TxtCom>>)
          /\ platformResult.name = <<"A", "c", "m", "e", ".", "c", "o", "m">>

-----------------------------------------------------------------------------
(* Rule order of the structured-data strategy *)

\* the candidate of one block under the four rules in the order Product,
\* BreadcrumbList, @graph member, product-like object
RuleOrderCandidate(b) ==
    IF ~b.valid THEN EmptyStr
    ELSE IF b.type = "Product" /\ b.name # EmptyStr THEN b.name
    ELSE IF b.type = "BreadcrumbList" /\ b.crumbs # <<>>
            /\ b.crumbs[Len(b.crumbs)] # EmptyStr
         THEN b.crumbs[Len(b.crumbs)]
    ELSE IF \E i \in 1..Len(b.graph) :
                b.graph[i].type = "Product" /\ b.graph[i].name # EmptyStr
         THEN b.graph[Least({i \in 1..Len(b.graph) :
                  b.graph[i].type = "Product" /\ b.graph[i].name # EmptyStr})].name
    ELSE IF b.name # EmptyStr /\ b.offer THEN b.name
    ELSE EmptyStr

\* C28 (as claimed): the structured-data strategy returns the candidate of
\* the first block, in document order, that yields one under the rules
\* Product, BreadcrumbList, @graph member, product-like object; so a
\* BreadcrumbList block before a Product block determines the title
FirstBlockRuleOrder ==
    (trace # <<>> /\ trace[1].strategy = "structured_data") =>
        LET hits == {i \in 1..Len(page.blocks) :
                        RuleOrderCandidate(page.blocks[i]) # EmptyStr}
        IN  /\ trace[1].title =
                  IF hits = {} THEN EmptyStr
                  ELSE RuleOrderCandidate(page.blocks[Least(hits)])
            /\ (Len(page.blocks) >= 2 /\ page.blocks[1] = BlkBreadcrumb
                   /\ page.blocks[2] = BlkProduct) =>
                   trace[1].title = TxtCrumbLeaf

-----------------------------------------------------------------------------
(* Range of overallScore *)

\* the observations of the breakdown that survive the filter
Surviving == SelectSeq(aggregatedScore.platformBreakdown, ValidObservation)

\* the weight a service gives a surviving observation
SurvivorWeight(e) ==
    IF aggImpl = RatingAggregator THEN EffectiveWeight(e) ELSE e.reviewCount

\* C29 (as claimed): overallScore is 0 exactly when the effective weights of
\* the surviving observations sum to zero; otherwise it lies between the
\* least and the greatest rating among them, and with one surviving
\* observation it is that observation's rating
ScoreWithinRatings ==
    Aggregated =>
        LET score == aggregatedScore.overallScore
            weightSum ==
                SumSeq([i \in 1..Len(Surviving) |-> SurvivorWeight(Surviving[i])])
        IN  /\ (score.num = 0) <=> (weightSum = 0)
            /\ weightSum > 0 =>
                  /\ \E i \in 1..Len(Surviving) :
                         Surviving[i].rating * score.den <= 10 * score.num
                  /\ \E i \in 1..Len(Surviving) :
                         10 * score.num <= Surviving[i].rating * score.den
            /\ Len(Surviving) = 1 =>
                  10 * score.num = Surviving[1].rating * score.den

-----------------------------------------------------------------------------
(* Termination of processInBatches *)

\* The event loop runs every continuation that is ready, so the steps of
\* processInBatches itself are taken once they can be; that a task that was
\* invoked settles in the end is the hypothesis on the tasks.
FairBatch ==
    /\ WF_vars(StartBatch)
    /\ WF_vars(TaskSettles)
    /\ WF_vars(BatchResolves)
    /\ WF_vars(BatchRejects)
    /\ WF_vars(ReturnResults)

SpecBatchFair == InitBatch /\ [][NextBatch]_vars /\ FairBatch

\* the least integer not below n / size
CeilDiv(n, size) == (n + size - 1) \div size

AllTasksSettleWithValue == \A k \in DOMAIN tasks : ~tasks[k].rejects

CompletedOnceEach ==
    /\ batchPc = "returned"
    /\ \A k \in DOMAIN tasks : calls[k] = 1
    /\ chunksRun = CeilDiv(Len(tasks), batchSize)

\* C30: for every task list and every batch size >= 1, if each task settles
\* with a value then processInBatches eventually completes, having invoked
\* every task exactly once and run ceil(n / batchSize) chunks
EventuallyCompletes == AllTasksSettleWithValue ~> CompletedOnceEach

\* 7 value tasks with limit 3 have completed in 3 chunks, each invoked once
EventuallyCompletesWitness ==
    /\ AllTasksSettleWithValue
    /\ Len(tasks) = MaxTasks
    /\ batchSize = MaxBatchSize
    /\ CompletedOnceEach
    /\ chunksRun = 3

=============================================================================
